---- MODULE Spec2Model ----
(***************************************************************************)
(* Model of the agent orchestration engine: Orchestrator.handleEvent       *)
(* (src/src/orchestrator/index.ts) with the conversation log store         *)
(* (src/src/clients/turso.ts), the model client (src/src/clients/llm.ts)   *)
(* and the tool gateway client (src/src/clients/mcp.ts).                   *)
(*                                                                         *)
(* Every handleEvent invocation is a frame h[e]; its position pc is the    *)
(* await it is suspended at.  The log store is the shared sequence log.    *)
(***************************************************************************)
EXTENDS Integers, Sequences, FiniteSets, TLC

VARIABLES
  log,        \* conversation_history rows, in insertion order
  now,        \* Date.now(), in milliseconds
  ticks,      \* number of clock advances so far
  uuids,      \* number of session ids uuidv4() has handed out
  h,          \* one handleEvent frame per event
  trace,      \* per event: what the frame did to its collaborators
  pm          \* a text, and what parseMessage made of it

vars == <<log, now, ticks, uuids, h, trace, pm>>

(***************************************************************************)
(* Bounds of the model.                                                    *)
(***************************************************************************)
NumEvents == 2          \* requests handled in one behaviour
MaxInFlight == 1        \* requests handled at the same time
MaxModelCalls == 3      \* model invocations in one behaviour of Spec
MaxGatewayCalls == 1    \* gateway invocations in one behaviour of Spec
MaxTicks == 1           \* clock advances in one behaviour of Spec
MaxTieSwaps == 1        \* exchanges of equal-timestamp rows in one read
MaxToolCalls == 2       \* tool calls in one model response
LoopModelCalls == 3     \* model invocations in one behaviour of SpecLoop
LoopGatewayCalls == 3   \* gateway invocations in one behaviour of SpecLoop
EdgeModelCalls == 2     \* model invocations in one behaviour of SpecEdge
MaxPieces == 3          \* pieces a text given to parseMessage is made of

(***************************************************************************)
(* Program constants.                                                      *)
(***************************************************************************)
THRESHOLD_HOURS == 3
maxRetries == 3
MsPerSecond == 1000

timeThreshold == THRESHOLD_HOURS * 60 * 60 * MsPerSecond

Events == 1..NumEvents

NoUser == "none"
Users == {"u1"}
NoSession == 0

\* A session id made up by a client: no row of the log carries it.
ClientSession == 99

\* The JSON value null, as a content.
Null == <<"null", 0, 0>>

(***************************************************************************)
(* Sequence helpers.                                                       *)
(***************************************************************************)
RECURSIVE Filter(_, _)
Filter(s, keep) ==
  IF s = <<>> THEN <<>>
  ELSE IF Head(s) \in keep THEN <<Head(s)>> \o Filter(Tail(s), keep)
       ELSE Filter(Tail(s), keep)

Range(s) == {s[i] : i \in DOMAIN s}

Last(s) == s[Len(s)]

Swap(s, i) ==
  [j \in DOMAIN s |-> IF j = i THEN s[i + 1] ELSE IF j = i + 1 THEN s[i] ELSE s[j]]

Max(S) == CHOOSE x \in S : \A y \in S : y <= x

(***************************************************************************)
(* parseMessage (src/src/utils/messageParser.ts).  A text is a sequence of *)
(* characters.                                                             *)
(***************************************************************************)
UpperCase == <<"A", "B", "C", "D", "E", "F", "G", "H", "I", "J", "K", "L", "M",
               "N", "O", "P", "Q", "R", "S", "T", "U", "V", "W", "X", "Y", "Z">>

LowerCase == <<"a", "b", "c", "d", "e", "f", "g", "h", "i", "j", "k", "l", "m",
               "n", "o", "p", "q", "r", "s", "t", "u", "v", "w", "x", "y", "z">>

\* String.prototype.toLowerCase
toLowerCase(s) ==
  [i \in DOMAIN s |->
     IF \E k \in DOMAIN UpperCase : UpperCase[k] = s[i]
     THEN LowerCase[CHOOSE k \in DOMAIN UpperCase : UpperCase[k] = s[i]]
     ELSE s[i]]

Min(S) == CHOOSE x \in S : \A y \in S : x <= y

\* String.prototype.trim
trim(s) ==
  LET inked == {i \in DOMAIN s : s[i] # " "}
  IN IF inked = {} THEN <<>> ELSE SubSeq(s, Min(inked), Max(inked))

\* String.prototype.indexOf for one character, from a position; 0 if none.
IndexOf(s, c, from) ==
  LET hits == {i \in from..Len(s) : s[i] = c}
  IN IF hits = {} THEN 0 ELSE Min(hits)

\* text.match(/\[([^\]]+)\]/g): from the leftmost "[" that is followed by a
\* character other than "]" and, later, by a "]", up to the first such "]";
\* the search goes on after the match.
RECURSIVE MatchFrom(_, _)
MatchFrom(s, i) ==
  IF i > Len(s) THEN <<>>
  ELSE LET close == IndexOf(s, "]", i + 2)
       IN IF s[i] = "[" /\ i + 1 <= Len(s) /\ s[i + 1] # "]" /\ close # 0
          THEN <<SubSeq(s, i, close)>> \o MatchFrom(s, close + 1)
          ELSE MatchFrom(s, i + 1)

\* String.prototype.split for a separator of one character.
RECURSIVE split(_, _)
split(s, sep) ==
  LET i == IndexOf(s, sep, 1)
  IN IF i = 0 THEN <<s>>
     ELSE <<SubSeq(s, 1, i - 1)>> \o split(SubSeq(s, i + 1, Len(s)), sep)

\* String.prototype.replace(m, ''): the first occurrence of m is removed.
replace(text, m) ==
  LET hits == {i \in 1..(Len(text) - Len(m) + 1) : SubSeq(text, i, i + Len(m) - 1) = m}
  IN IF hits = {} THEN text
     ELSE SubSeq(text, 1, Min(hits) - 1) \o SubSeq(text, Min(hits) + Len(m), Len(text))

\* The value undefined of a text.
Undefined == <<"undefined">>

ParseResult(cleanText, sessionCommand, agent_idOverride) ==
  [cleanText |-> cleanText, sessionCommand |-> sessionCommand,
   agent_idOverride |-> agent_idOverride]

NoResult == ParseResult(<<>>, "undefined", Undefined)

\* Lines 16-36: one part of a bracket group, key and value around the first
\* colons.
ApplyPart(acc, part) ==
  LET kv == split(part, ":")
      kRaw == trim(kv[1])
      vRaw == IF Len(kv) >= 2 THEN trim(kv[2]) ELSE Undefined
      k == toLowerCase(kRaw)
      v == IF vRaw = Undefined THEN Undefined ELSE toLowerCase(vRaw)
  IN IF k = <<>> THEN acc
     ELSE [acc EXCEPT
             !.sessionCommand =
                IF k = <<"s">> /\ (v = <<"n", "e", "w">> \/ v = <<"n">>) THEN "new" ELSE @,
             !.agent_idOverride =
                IF k = <<"a">> /\ v # Undefined /\ v # <<>> THEN vRaw ELSE @]

RECURSIVE ApplyParts(_, _)
ApplyParts(acc, parts) ==
  IF parts = <<>> THEN acc ELSE ApplyParts(ApplyPart(acc, trim(Head(parts))), Tail(parts))

\* Mutant of StripMatch: the text is not trimmed after the removal.
StripMatch_NoTrim(text, m) == replace(text, m)

\* Line 37: text = text.replace(m, '').trim()
StripMatch(text, m) == trim(replace(text, m))

\* Mutant of ApplyMatches: a group that sets nothing stays in the text.
RECURSIVE ApplyMatches_KeepsUnknown(_, _)
ApplyMatches_KeepsUnknown(acc, matches) ==
  IF matches = <<>> THEN acc
  ELSE LET m == Head(matches)
           inside == SubSeq(m, 2, Len(m) - 1)
           done == ApplyParts(acc, split(inside, ";"))
       IN ApplyMatches_KeepsUnknown(
            IF done = acc THEN done ELSE [done EXCEPT !.cleanText = StripMatch(@, m)],
            Tail(matches))

\* Lines 13-38: the loop over the matches.
RECURSIVE ApplyMatches(_, _)
ApplyMatches(acc, matches) ==
  IF matches = <<>> THEN acc
  ELSE LET m == Head(matches)
           inside == SubSeq(m, 2, Len(m) - 1)
           done == ApplyParts(acc, split(inside, ";"))
       IN ApplyMatches([done EXCEPT !.cleanText = StripMatch(@, m)], Tail(matches))

parseMessage(raw) ==
  LET text == trim(raw)
  IN ApplyMatches(ParseResult(text, "undefined", Undefined), MatchFrom(text, 1))

(***************************************************************************)
(* Agent registry (AgentFactory.get): agent id -> config, or not found.    *)
(***************************************************************************)
NoAgent == "none"
Registry == {"a1", "a2"}

AgentNo(a) == IF a = "a1" THEN 1 ELSE IF a = "a2" THEN 2 ELSE 0

AgentModel(a) == IF a = "a1" THEN "m1" ELSE "m2"

AgentFactoryGet(a) == a \in Registry

(***************************************************************************)
(* Conversation turns.  A turn in memory has the keys below; a key the     *)
(* object does not carry holds the value Absent(key).  Contents and call   *)
(* ids are triples <<tag, n, m>>.                                          *)
(***************************************************************************)
MessageKeys == {"role", "content", "tool_calls", "tool_call_id", "thinking_blocks"}

Absent(k) == IF k = "tool_calls" THEN <<>> ELSE IF k = "role" THEN "" ELSE <<"undefined", 0, 0>>

Message(role, content, tool_calls, tool_call_id, thinking) ==
  [role |-> role, content |-> content, tool_calls |-> tool_calls,
   tool_call_id |-> tool_call_id, thinking_blocks |-> thinking]

SystemMessage(agent, graphitiContext) ==
  Message("system", <<"prompt", AgentNo(agent), graphitiContext>>, <<>>,
          Absent("tool_call_id"), Absent("thinking_blocks"))

convertEventToUserMessage(e) ==
  Message("user", <<"user", e, 0>>, <<>>, Absent("tool_call_id"), Absent("thinking_blocks"))

ToolMessage(call, kind) ==
  Message("tool", <<kind, call.id[2], call.id[3]>>, <<>>, call.id, Absent("thinking_blocks"))

timeSystemMessage ==
  Message("system", <<"time", 0, 0>>, <<>>, Absent("tool_call_id"), Absent("thinking_blocks"))

\* JSON.stringify: the keys whose value is undefined are not written.
JSONstringify(m) ==
  [k \in {x \in MessageKeys : m[x] # Absent(x)} |-> m[k]]

\* JSON.parse: a key the text does not hold reads as undefined.
JSONparse(t) ==
  [k \in MessageKeys |-> IF k \in DOMAIN t THEN t[k] ELSE Absent(k)]

\* sanitizeResponseMessage: signatures are removed from the thinking blocks,
\* and thinking_blocks is always present afterwards.
sanitizeResponseMessage(m) ==
  [m EXCEPT !.thinking_blocks =
     IF @ = Absent("thinking_blocks") THEN <<"blocks", 0, 0>> ELSE <<"blocks", @[2], 0>>]

(***************************************************************************)
(* Conversation log store (TursoClient).                                   *)
(***************************************************************************)
\* The row logConversation inserts: ts is Date.now() in whole seconds.
Row(role, message, user_id, session_id, agent_id) ==
  [role |-> role, message |-> JSONstringify(message), user_id |-> user_id,
   session_id |-> session_id, agent_id |-> agent_id,
   timestamp |-> now \div MsPerSecond]

\* Indices of the rows of a session, in insertion order.
SessionRows(l, sid) == Filter([i \in 1..Len(l) |-> i], {i \in 1..Len(l) : l[i].session_id = sid})

\* ORDER BY timestamp orders rows of one second in no particular way: the
\* orders explored are insertion order and those reached from it by exchanging
\* up to n adjacent rows of equal timestamp.
RECURSIVE TieOrders(_, _, _)
TieOrders(l, idx, n) ==
  IF n = 0 THEN {idx}
  ELSE LET prev == TieOrders(l, idx, n - 1)
       IN prev \cup {Swap(p, i) : <<p, i>> \in
                       {<<q, j>> \in prev \X (1..(Len(idx) - 1)) :
                          l[q[j]].timestamp = l[q[j + 1]].timestamp}}

\* ... WHERE session_id = sid ORDER BY timestamp ASC
OrderByTimestamp(l, sid) == TieOrders(l, SessionRows(l, sid), MaxTieSwaps)

\* SELECT session_id ... WHERE user_id = ? ORDER BY timestamp DESC LIMIT 1
LatestSessions(l, user_id) ==
  LET mine == {i \in 1..Len(l) : l[i].user_id = user_id}
  IN IF mine = {} THEN {}
     ELSE LET newest == Max({l[i].timestamp : i \in mine})
          IN {l[i].session_id : i \in {j \in mine : l[j].timestamp = newest}}

\* getLatestConversation(userId): the possible results, as row indices.
getLatestConversation(l, user_id) ==
  IF LatestSessions(l, user_id) = {} THEN {<<>>}
  ELSE UNION {OrderByTimestamp(l, sid) : sid \in LatestSessions(l, user_id)}

\* getLatestConversationBySessionId(sessionId): readSession of the log store.
getLatestConversationBySessionId(l, sid) == OrderByTimestamp(l, sid)

\* The replay loop: every row's message is parsed and pushed.
Replay(l, rows) == [i \in DOMAIN rows |-> JSONparse(l[rows[i]].message)]

(***************************************************************************)
(* Events, model responses and handleEvent frames.                         *)
(***************************************************************************)
\* An event, as handleEvent reads it: sessionCommand and override are what
\* parseMessage finds in its text parts; name says whether the sender has a
\* first name or a username; messages is "ok", "missing" (no messages field)
\* or "notext" (a text part without text).
Event(user_id, sessionId, sessionCommand, agent_id, override, is_bot, recipients, audio, name, messages) ==
  [user_id |-> user_id, sessionId |-> sessionId, sessionCommand |-> sessionCommand,
   agent_id |-> agent_id, override |-> override, is_bot |-> is_bot,
   recipients |-> recipients, audio |-> audio, name |-> name, messages |-> messages]

NoEvent == Event(NoUser, NoSession, "none", NoAgent, NoAgent, TRUE, FALSE, FALSE, FALSE, "ok")

\* The session ids a client can send in event.metadata.sessionId: none, or
\* one it was given in an earlier reply.
KnownSessions(l) == {NoSession} \cup {l[i].session_id : i \in 1..Len(l)}

\* The events of the core specification: automated sender, text only, with
\* recipients.
CoreEvents(l) ==
  {Event(u, s, c, "a1", NoAgent, TRUE, r, FALSE, TRUE, "ok") :
     u \in Users \cup {NoUser}, s \in KnownSessions(l), c \in {"new", "none"}, r \in {TRUE}}

\* The first request of the enrichment specification: a user starts a session.
SeedEvents == {Event("u1", NoSession, "new", "a1", NoAgent, TRUE, TRUE, FALSE, TRUE, "ok")}

\* Events of a person (not automated), with or without a name, recipients, a
\* session id in the metadata, a reset command and an agent override.
EdgeEvents(l) ==
  {Event(u, s, c, "a1", o, FALSE, r, FALSE, n, "ok") :
     u \in Users \cup {NoUser}, s \in KnownSessions(l) \cup {ClientSession},
     c \in {"new", "none"}, o \in {NoAgent, "a1", "a2"}, r \in BOOLEAN, n \in BOOLEAN}

\* Events with an input error: no messages, no agent id, a text part without
\* text, an agent id (given or overriding) that the registry does not hold.
InvalidEvents ==
  {ev \in {Event("u1", NoSession, "new", a, o, FALSE, TRUE, FALSE, TRUE, m) :
             a \in {"a1", "zz", NoAgent}, o \in {NoAgent, "zz"},
             m \in {"ok", "missing", "notext"}} :
     \/ ev.messages # "ok"
     \/ ev.agent_id # "a1"
     \/ ev.override # NoAgent}

ToolCall(e, k, i) == [id |-> <<"call", 10 * e + k, i>>, name |-> "t1", arguments |-> "json"]

\* choices[0].message of the k-th model response of event e, with n tool calls.
ResponseMessage(e, k, n, hasContent) ==
  Message("assistant", IF hasContent THEN <<"text", e, k>> ELSE Null,
          [i \in 1..n |-> ToolCall(e, k, i)], Absent("tool_call_id"), <<"blocks", 1, 1>>)

Response(message, finish_reason, usage) ==
  [message |-> message, finish_reason |-> finish_reason, usage |-> usage]

NoResponse == Response(Message("", Absent("content"), <<>>, Absent("tool_call_id"),
                               Absent("thinking_blocks")), "none", FALSE)

\* A response message whose tool calls carry arguments that are not JSON.
WithArguments(m, arguments) ==
  [m EXCEPT !.tool_calls = [i \in 1..Len(@) |-> [@[i] EXCEPT !.arguments = arguments]]]

\* A response message whose tool calls name another tool.
WithName(m, name) ==
  [m EXCEPT !.tool_calls = [i \in 1..Len(@) |-> [@[i] EXCEPT !.name = name]]]

\* The tools the gateway lists, and those the configuration of an agent allows.
Catalog == {"t1", "t2"}

allowedTools(agent_id) == IF agent_id = "a1" THEN {"t1"} ELSE {"t2"}

\* The responses the model service can give that getLLMResponse accepts, by
\* kind: a final answer, an answer cut short, an answer without content, a
\* batch of n tool calls, n tool calls sent along with a text and the finish
\* reason 'stop', n tool calls whose arguments are not valid JSON, n calls
\* of a tool of the catalog that the agent is not allowed, or a final answer
\* in a body without usage counters.
ResponseOfKind(e, k, kind) ==
  IF kind[1] = "final" THEN Response(ResponseMessage(e, k, 0, TRUE), "stop", TRUE)
  ELSE IF kind[1] = "nousage" THEN Response(ResponseMessage(e, k, 0, TRUE), "stop", FALSE)
  ELSE IF kind[1] = "othertool"
  THEN Response(WithName(ResponseMessage(e, k, kind[2], FALSE), "t2"), "tool_calls", TRUE)
  ELSE IF kind[1] = "toolstop" THEN Response(ResponseMessage(e, k, kind[2], TRUE), "stop", TRUE)
  ELSE IF kind[1] = "badargs"
  THEN Response(WithArguments(ResponseMessage(e, k, kind[2], FALSE), "not json"), "tool_calls", TRUE)
  ELSE IF kind[1] = "cut" THEN Response(ResponseMessage(e, k, 0, TRUE), "length", TRUE)
  ELSE IF kind[1] = "empty" THEN Response(ResponseMessage(e, k, 0, FALSE), "stop", TRUE)
  ELSE Response(ResponseMessage(e, k, kind[2], FALSE), "tool_calls", TRUE)

CoreKinds == {<<"final", 0>>, <<"tools", 1>>}

\* A choice without a message payload.
NoMessage ==
  Message("", Absent("content"), <<>>, Absent("tool_call_id"), Absent("thinking_blocks"))

\* What one fetch of /chat/completions gives: whether the request went through,
\* response.ok, and the choices and usage of the body.
Reply(fetched, ok, choices, usage) ==
  [fetched |-> fetched, ok |-> ok, choices |-> choices, usage |-> usage]

NoReply == Reply(FALSE, FALSE, <<>>, FALSE)

Choice(r) == [message |-> r.message, finish_reason |-> r.finish_reason]

\* The replies by kind: a transport failure, a non-success status (whatever
\* the body), a body without choices, a first choice without a message, or a
\* well-formed response of one of the kinds above.
ReplyOfKind(e, k, kind) ==
  IF kind[1] = "fetch" THEN Reply(FALSE, FALSE, <<>>, FALSE)
  ELSE IF kind[1] = "status"
  THEN Reply(TRUE, FALSE, <<Choice(ResponseOfKind(e, k, <<"final", 0>>))>>, TRUE)
  ELSE IF kind[1] = "nochoice" THEN Reply(TRUE, TRUE, <<>>, TRUE)
  ELSE IF kind[1] = "nomessage"
  THEN Reply(TRUE, TRUE, <<[message |-> NoMessage, finish_reason |-> "stop"]>>, TRUE)
  ELSE Reply(TRUE, TRUE, <<Choice(ResponseOfKind(e, k, kind))>>, ResponseOfKind(e, k, kind).usage)

CoreFailures == {<<"fetch", 0>>}

LoopFailures == {<<"fetch", 0>>, <<"status", 0>>, <<"nochoice", 0>>, <<"nomessage", 0>>}

LoopKinds ==
  {<<"final", 0>>, <<"cut", 0>>, <<"empty", 0>>, <<"toolstop", 1>>, <<"badargs", 1>>}
    \cup {<<"tools", n>> : n \in 1..MaxToolCalls}

IdleFrame ==
  [pc |-> "idle", event |-> NoEvent, sessionCommand |-> "none", agent_id |-> NoAgent,
   agent_idOverwritten |-> FALSE, hasAudioInput |-> FALSE, model |-> "none",
   sessionId |-> NoSession, conversation |-> <<>>, branch |-> "none",
   graphitiContext |-> 0, attempt |-> 0, response |-> NoResponse,
   toolCalls |-> <<>>, call |-> 0, parsedArgs |-> "none", toolResult |-> "none",
   resultKeys |-> {}, llmTools |-> {},
   lastError |-> "none", result |-> "none", error |-> "none"]

NoTrace ==
  [modelCalls |-> 0, gatewayCalls |-> 0, deliveries |-> 0, appended |-> <<>>,
   gateway |-> <<>>, payload |-> <<>>, appendFailed |-> FALSE, rows |-> <<>>, readLen |-> 0,
   readAt |-> 0, latest |-> 0, sentLen |-> 0, reply |-> NoReply,
   interims |-> 0, searches |-> <<>>, episodes |-> <<>>, sentModel |-> "none",
   outgoing |-> <<>>, tts |-> "none"]

Running(f) == f.pc \notin {"idle", "done", "failed"}

\* An exception leaves handleEvent: the frame ends with the error.
Throw(f, error) == [f EXCEPT !.pc = "failed", !.error = error, !.result = "error"]

\* No text has been given to parseMessage.
NoParse == [stage |-> "none", raw |-> <<>>, out |-> NoResult, again |-> NoResult]

Init ==
  /\ log = <<>>
  /\ now = 500
  /\ ticks = 0
  /\ uuids = 0
  /\ h = [e \in Events |-> IdleFrame]
  /\ trace = [e \in Events |-> NoTrace]
  /\ pm = NoParse

TickDeltas == {timeThreshold - 500, timeThreshold}

\* Time passes: between two requests, or while a request waits for the model.
Tick ==
  /\ \A e \in Events : ~Running(h[e]) \/ h[e].pc = "model"
  /\ \E d \in TickDeltas : now' = now + d
  /\ ticks' = ticks + 1
  /\ UNCHANGED <<log, uuids, h, trace, pm>>

(***************************************************************************)
(* handleEvent, one action per stretch between two awaits.                 *)
(***************************************************************************)
\* Mutant of Unpack: the model is that of the event's agent, not of the override.
Unpack_KeepsEventModel(f, ev, fresh) ==
  LET agent_id == IF ev.override # NoAgent THEN ev.override ELSE ev.agent_id
  IN IF ev.messages = "missing" THEN Throw([f EXCEPT !.event = ev], "input")
     ELSE IF ev.agent_id = NoAgent THEN Throw([f EXCEPT !.event = ev], "input")
     ELSE IF ev.messages = "notext" THEN Throw([f EXCEPT !.event = ev], "input")
     ELSE IF ~AgentFactoryGet(agent_id)
     THEN Throw([f EXCEPT !.event = ev, !.agent_id = agent_id], "input")
     ELSE [f EXCEPT !.pc = "session", !.event = ev,
                    !.sessionCommand = ev.sessionCommand,
                    !.agent_id = agent_id,
                    !.agent_idOverwritten = (ev.override # NoAgent),
                    !.hasAudioInput = ev.audio,
                    !.model = AgentModel(ev.agent_id),
                    !.sessionId = IF ev.sessionId = NoSession THEN fresh ELSE ev.sessionId]

\* Mutant of Unpack: the agent is not looked up in the registry.
Unpack_SkipsRegistry(f, ev, fresh) ==
  LET agent_id == IF ev.override # NoAgent THEN ev.override ELSE ev.agent_id
  IN IF ev.messages = "missing" THEN Throw([f EXCEPT !.event = ev], "input")
     ELSE IF ev.agent_id = NoAgent THEN Throw([f EXCEPT !.event = ev], "input")
     ELSE IF ev.messages = "notext" THEN Throw([f EXCEPT !.event = ev], "input")
     ELSE [f EXCEPT !.pc = "session", !.event = ev,
                    !.sessionCommand = ev.sessionCommand,
                    !.agent_id = agent_id,
                    !.agent_idOverwritten = (ev.override # NoAgent),
                    !.hasAudioInput = ev.audio,
                    !.model = AgentModel(agent_id),
                    !.sessionId = IF ev.sessionId = NoSession THEN fresh ELSE ev.sessionId]

\* Lines 88-141: unpack the event, look the agent up, settle the session id.
Unpack(f, ev, fresh) ==
  LET agent_id == IF ev.override # NoAgent THEN ev.override ELSE ev.agent_id
  IN IF ev.messages = "missing" THEN Throw([f EXCEPT !.event = ev], "input")
     ELSE IF ev.agent_id = NoAgent THEN Throw([f EXCEPT !.event = ev], "input")
     ELSE IF ev.messages = "notext" THEN Throw([f EXCEPT !.event = ev], "input")
     ELSE IF ~AgentFactoryGet(agent_id)
     THEN Throw([f EXCEPT !.event = ev, !.agent_id = agent_id], "input")
     ELSE [f EXCEPT !.pc = "session", !.event = ev,
                    !.sessionCommand = ev.sessionCommand,
                    !.agent_id = agent_id,
                    !.agent_idOverwritten = (ev.override # NoAgent),
                    !.hasAudioInput = ev.audio,
                    !.model = AgentModel(agent_id),
                    !.sessionId = IF ev.sessionId = NoSession THEN fresh ELSE ev.sessionId]

Begin(e, ev, inFlight) ==
  /\ h[e].pc = "idle"
  /\ \A d \in Events : d < e => h[d].pc # "idle"
  /\ Cardinality({d \in Events : Running(h[d])}) < inFlight
  /\ h' = [h EXCEPT ![e] = Unpack(h[e], ev, uuids + 1)]
  /\ uuids' = IF h'[e].pc = "session" /\ ev.sessionId = NoSession THEN uuids + 1 ELSE uuids
  /\ UNCHANGED <<log, now, ticks, trace, pm>>

Start(e, ev) == Begin(e, ev, MaxInFlight)

\* Mutant of LogFailure: the failed insert is not reported.
LogFailure_Ignored(f) == f

\* The insert failed: logConversation rethrows the error (line 78).
LogFailure(f) == Throw(f, "log")

\* Mutant of logConversation: a failed insert is logged to the console only.
logConversation_Swallows(e, role, message, next) ==
  \/ /\ log' = Append(log, Row(role, message, h[e].event.user_id, h[e].sessionId, h[e].agent_id))
     /\ h' = [h EXCEPT ![e] = next]
     /\ trace' = [trace EXCEPT ![e].appended = Append(@, Len(log) + 1)]
  \/ /\ log' = log
     /\ h' = [h EXCEPT ![e] = next]
     /\ trace' = [trace EXCEPT ![e].appendFailed = TRUE]

\* Mutant of logConversation: the session id is kept in a field of the
\* orchestrator, which the request begun last has set.
logConversation_SharedSession(e, role, message, next) ==
  LET last == Max({d \in Events : h[d].pc # "idle"})
  IN \/ /\ log' = Append(log, Row(role, message, h[e].event.user_id, h[last].sessionId,
                                   h[e].agent_id))
        /\ h' = [h EXCEPT ![e] = next]
        /\ trace' = [trace EXCEPT ![e].appended = Append(@, Len(log) + 1)]
     \/ /\ log' = log
        /\ h' = [h EXCEPT ![e] = LogFailure(h[e])]
        /\ trace' = [trace EXCEPT ![e].appendFailed = TRUE]

\* tursoClient.logConversation followed by the statements up to the next
\* await: the row is inserted and the frame goes on as `next`, or the insert
\* fails and the error leaves handleEvent.
logConversation(e, role, message, next) ==
  \/ /\ log' = Append(log, Row(role, message, h[e].event.user_id, h[e].sessionId, h[e].agent_id))
     /\ h' = [h EXCEPT ![e] = next]
     /\ trace' = [trace EXCEPT ![e].appended = Append(@, Len(log) + 1)]
  \/ /\ log' = log
     /\ h' = [h EXCEPT ![e] = LogFailure(h[e])]
     /\ trace' = [trace EXCEPT ![e].appendFailed = TRUE]

\* Lines 150, 252, 359: a sender that is not automated gets the interim
\* notice and the enrichment lookup before the system turn is built.
Enrich(f) == IF f.event.is_bot THEN "log_system" ELSE "interim"

\* Lines 144-146: session command `new`; the system turn is built next.
SessionNew(e) ==
  /\ h[e].pc = "session"
  /\ h[e].event.user_id # NoUser
  /\ h[e].sessionCommand = "new"
  /\ h' = [h EXCEPT ![e].pc = Enrich(h[e]), ![e].branch = "new"]
  /\ trace' = [trace EXCEPT ![e].readLen = Len(log), ![e].readAt = now]
  /\ UNCHANGED <<log, now, ticks, uuids, pm>>

\* Mutant of Stale: a gap of exactly the threshold counts as stale.
Stale_AtThreshold(timestamp, t) == t - timestamp * MsPerSecond >= timeThreshold

\* Line 248: is the newest row older than the threshold?
Stale(timestamp, t) == t - timestamp * MsPerSecond > timeThreshold

\* Mutant of ResolveLatest: the session id of the newest row is not adopted.
ResolveLatest_StaleKeepsSession(f, l, rows, t) ==
  IF rows = <<>> THEN Throw(f, "TypeError")
  ELSE IF Stale(l[Last(rows)].timestamp, t)
  THEN [f EXCEPT !.sessionId = l[Last(rows)].session_id,
                 !.pc = Enrich(f), !.branch = "stale"]
  ELSE [f EXCEPT !.sessionId = l[Last(rows)].session_id,
                 !.conversation = Replay(l, rows),
                 !.branch = IF f.agent_idOverwritten THEN "switch" ELSE "continue",
                 !.pc = IF f.agent_idOverwritten THEN Enrich(f) ELSE "log_user"]

ResolveLatest_KeepsOwnId(f, l, rows, t) ==
  IF rows = <<>> THEN Throw(f, "TypeError")
  ELSE IF Stale(l[Last(rows)].timestamp, t)
  THEN [f EXCEPT !.pc = Enrich(f), !.branch = "stale"]
  ELSE [f EXCEPT !.conversation = Replay(l, rows),
                 !.branch = IF f.agent_idOverwritten THEN "switch" ELSE "continue",
                 !.pc = IF f.agent_idOverwritten THEN Enrich(f) ELSE "log_user"]

\* Lines 240-249, 337-356: what the frame does with the rows read for its user.
ResolveLatest(f, l, rows, t) ==
  IF rows = <<>> THEN Throw(f, "TypeError")
  ELSE IF Stale(l[Last(rows)].timestamp, t)
  THEN [f EXCEPT !.pc = Enrich(f), !.branch = "stale"]
  ELSE [f EXCEPT !.sessionId = l[Last(rows)].session_id,
                 !.conversation = Replay(l, rows),
                 !.branch = IF f.agent_idOverwritten THEN "switch" ELSE "continue",
                 !.pc = IF f.agent_idOverwritten THEN Enrich(f) ELSE "log_user"]

SessionLatest(e) ==
  /\ h[e].pc = "session"
  /\ h[e].event.user_id # NoUser
  /\ h[e].sessionCommand # "new"
  /\ \E rows \in getLatestConversation(log, h[e].event.user_id) :
       /\ h' = [h EXCEPT ![e] = ResolveLatest(h[e], log, rows, now)]
       /\ trace' = [trace EXCEPT ![e].rows = rows, ![e].readLen = Len(log),
                                 ![e].readAt = now,
                                 ![e].latest = IF rows = <<>> THEN 0 ELSE Last(rows)]
  /\ UNCHANGED <<log, now, ticks, uuids, pm>>

\* Mutant of ResolveById: the rows of the session are not replayed.
ResolveById_NeverReplays(f, l, rows) ==
  [f EXCEPT !.pc = "log_system", !.branch = "bare"]

\* Lines 447-508: no user id; the session id is never undefined here (line 139).
ResolveById(f, l, rows) ==
  IF f.sessionId = NoSession \/ rows = <<>>
  THEN [f EXCEPT !.pc = "log_system", !.branch = "bare"]
  ELSE [f EXCEPT !.conversation = Replay(l, rows), !.branch = "replay", !.pc = "log_user"]

SessionById(e) ==
  /\ h[e].pc = "session"
  /\ h[e].event.user_id = NoUser
  /\ \E rows \in getLatestConversationBySessionId(log, h[e].sessionId) :
       /\ h' = [h EXCEPT ![e] = ResolveById(h[e], log, rows)]
       /\ trace' = [trace EXCEPT ![e].rows = rows, ![e].readLen = Len(log),
                                 ![e].readAt = now,
                                 ![e].latest = IF rows = <<>> THEN 0 ELSE Last(rows)]
  /\ UNCHANGED <<log, now, ticks, uuids, pm>>

\* Lines 153-164, 255-266, 362-373: the interim notice; sendResponse never
\* throws.  The lookup follows when the sender has a name.
SendInterim(e) ==
  /\ h[e].pc = "interim"
  /\ h' = [h EXCEPT ![e].pc = IF h[e].event.name THEN "search" ELSE "log_system"]
  /\ trace' = [trace EXCEPT ![e].interims = @ + 1]
  /\ UNCHANGED <<log, now, ticks, uuids, pm>>

\* Mutant of AfterSearch: a failed lookup leaves handleEvent.
AfterSearch_Rethrows(f, outcome) ==
  IF outcome = "error" THEN Throw(f, "search")
  ELSE [f EXCEPT !.graphitiContext = IF outcome = "found" THEN 1 ELSE 0, !.pc = "log_system"]

\* Lines 166-204, 268-307, 375-414: the lookup gave facts, gave none, or
\* failed; only facts make a context.
AfterSearch(f, outcome) ==
  [f EXCEPT !.graphitiContext = IF outcome = "found" THEN 1 ELSE 0, !.pc = "log_system"]

\* Lines 89-126 of graphiti.ts, called at lines 168, 270, 377.
searchGraphiti(e) ==
  /\ h[e].pc = "search"
  /\ \E outcome \in {"found", "empty", "error"} :
       /\ h' = [h EXCEPT ![e] = AfterSearch(h[e], outcome)]
       /\ trace' = [trace EXCEPT ![e].searches = Append(@, outcome)]
  /\ UNCHANGED <<log, now, ticks, uuids, pm>>

\* Lines 205-233, 308-336, 415-442, 449-487: persist the system turn, push it.
LogSystemTurn(e) ==
  /\ h[e].pc = "log_system"
  /\ LET systemMessage == SystemMessage(h[e].agent_id, h[e].graphitiContext)
     IN logConversation(e, "system", systemMessage,
          [h[e] EXCEPT !.conversation = Append(@, systemMessage), !.pc = "log_user"])
  /\ UNCHANGED <<now, ticks, uuids, pm>>

\* Mutant of LogUserTurn: the user turn is pushed without being persisted.
LogUserTurn_NotPersisted(e) ==
  /\ h[e].pc = "log_user"
  /\ h' = [h EXCEPT ![e].conversation = Append(@, convertEventToUserMessage(e)),
                    ![e].pc = "list_tools"]
  /\ UNCHANGED <<log, now, ticks, uuids, trace, pm>>

\* Lines 509-520: persist the user turn (role column 'system'), push it.
LogUserTurn(e) ==
  /\ h[e].pc = "log_user"
  /\ LET userMessage == convertEventToUserMessage(e)
     IN logConversation(e, "system", userMessage,
          [h[e] EXCEPT !.conversation = Append(@, userMessage), !.pc = "list_tools"])
  /\ UNCHANGED <<now, ticks, uuids, pm>>

\* Line 527: mcpClient.listTools(); a failed request leaves handleEvent.
ListTools(e) ==
  /\ h[e].pc = "list_tools"
  /\ \/ h' = [h EXCEPT ![e].pc = "model",
                       ![e].llmTools = {t \in Catalog : t \in allowedTools(h[e].agent_id)}]
     \/ h' = [h EXCEPT ![e] = Throw(h[e], "mcp")]
  /\ UNCHANGED <<log, now, ticks, uuids, trace, pm>>

\* Gateway and model invocations made so far by the events of E.
RECURSIVE GatewayCalls(_)
GatewayCalls(E) ==
  IF E = {} THEN 0
  ELSE LET e == CHOOSE x \in E : TRUE IN trace[e].gatewayCalls + GatewayCalls(E \ {e})

RECURSIVE ModelCalls(_)
ModelCalls(E) ==
  IF E = {} THEN 0
  ELSE LET e == CHOOSE x \in E : TRUE IN trace[e].modelCalls + ModelCalls(E \ {e})

\* Mutant of Accepted: the status of the response is not looked at.
Accepted_IgnoresStatus(reply) ==
  /\ reply.fetched
  /\ Len(reply.choices) > 0
  /\ reply.choices[1].message # NoMessage

\* Lines 72-93 of llm.ts: the attempt returns the data.
Accepted(reply) ==
  /\ reply.fetched
  /\ reply.ok
  /\ Len(reply.choices) > 0
  /\ reply.choices[1].message # NoMessage

\* Lines 72, 82, 89 of llm.ts: the error the attempt throws.
AttemptError(reply) ==
  IF ~reply.fetched THEN "fetch" ELSE IF ~reply.ok THEN "status" ELSE "invalid"

\* Mutant of AfterAttempt: the error of the first failed attempt is kept.
AfterAttempt_KeepsFirstError(f, reply) ==
  IF Accepted(reply)
  THEN [f EXCEPT !.response = Response(reply.choices[1].message,
                                       reply.choices[1].finish_reason, reply.usage),
                 !.attempt = 0, !.lastError = "none", !.pc = "log_assistant"]
  ELSE LET g == [f EXCEPT !.attempt = @ + 1,
                          !.lastError = IF @ = "none" THEN AttemptError(reply) ELSE @]
       IN IF g.attempt < maxRetries THEN g ELSE Throw(g, "llm")

\* Lines 67-107 of llm.ts: the attempt returns the data, or its error is kept
\* and the loop goes round, or the last error is thrown after the third.
AfterAttempt(f, reply) ==
  IF Accepted(reply)
  THEN [f EXCEPT !.response = Response(reply.choices[1].message,
                                       reply.choices[1].finish_reason, reply.usage),
                 !.attempt = 0, !.lastError = "none", !.pc = "log_assistant"]
  ELSE LET g == [f EXCEPT !.attempt = @ + 1, !.lastError = AttemptError(reply)]
       IN IF g.attempt < maxRetries THEN g ELSE Throw(g, "llm")

\* Mutant of getLLMResponse: the time turn is pushed onto the caller's conversation.
getLLMResponse_PushesTime(e, kinds) ==
  /\ h[e].pc = "model"
  /\ \E kind \in kinds :
       LET k == IF h[e].attempt = 0 THEN trace[e].modelCalls + 1 ELSE trace[e].modelCalls
           reply == ReplyOfKind(e, k, kind)
           f == IF h[e].attempt = 0
                THEN [h[e] EXCEPT !.conversation = Append(@, timeSystemMessage)]
                ELSE h[e]
       IN /\ h' = [h EXCEPT ![e] = AfterAttempt(f, reply)]
          /\ trace' = IF h[e].attempt = 0
                      THEN [trace EXCEPT ![e].modelCalls = k,
                                         ![e].payload = f.conversation,
                                         ![e].sentLen = Len(log),
                                         ![e].sentModel = h[e].model,
                                         ![e].reply = reply]
                      ELSE [trace EXCEPT ![e].reply = reply]
  /\ UNCHANGED <<log, now, ticks, uuids, pm>>

\* Lines 47-108 of llm.ts: one attempt of getLLMResponse.  The first attempt
\* of an invocation builds the payload: the conversation and the time turn.
getLLMResponse(e, kinds) ==
  /\ h[e].pc = "model"
  /\ \E kind \in kinds :
       LET k == IF h[e].attempt = 0 THEN trace[e].modelCalls + 1 ELSE trace[e].modelCalls
           reply == ReplyOfKind(e, k, kind)
       IN /\ h' = [h EXCEPT ![e] = AfterAttempt(h[e], reply)]
          /\ trace' = IF h[e].attempt = 0
                      THEN [trace EXCEPT ![e].modelCalls = k,
                                         ![e].payload = Append(h[e].conversation, timeSystemMessage),
                                         ![e].sentLen = Len(log),
                                         ![e].sentModel = h[e].model,
                                         ![e].reply = reply]
                      ELSE [trace EXCEPT ![e].reply = reply]
  /\ UNCHANGED <<log, now, ticks, uuids, pm>>

\* Mutant of AfterAssistant: a text with the finish reason 'stop' ends the
\* loop even when tool calls come with it.
AfterAssistant_StopFirst(f, responseMessage, finishReason) ==
  IF finishReason = "stop" /\ responseMessage.content # Null
  THEN [f EXCEPT !.pc = "deliver"]
  ELSE IF Len(responseMessage.tool_calls) > 0
  THEN [f EXCEPT !.pc = "tools", !.toolCalls = responseMessage.tool_calls, !.call = 1]
  ELSE [f EXCEPT !.pc = "model"]

\* Mutant of AfterAssistant: the final-answer branch is missing.
AfterAssistant_NoFinalBranch(f, responseMessage, finishReason) ==
  IF Len(responseMessage.tool_calls) > 0
  THEN [f EXCEPT !.pc = "tools", !.toolCalls = responseMessage.tool_calls, !.call = 1]
  ELSE [f EXCEPT !.pc = "model"]

\* Lines 583-588, 663-665: where the loop goes once the assistant turn is pushed.
AfterAssistant(f, responseMessage, finishReason) ==
  IF Len(responseMessage.tool_calls) > 0
  THEN [f EXCEPT !.pc = "tools", !.toolCalls = responseMessage.tool_calls, !.call = 1]
  ELSE IF finishReason = "stop" /\ responseMessage.content # Null
  THEN [f EXCEPT !.pc = "deliver"]
  ELSE [f EXCEPT !.pc = "model"]

\* Lines 555-588: sanitize the response, read the usage counters, persist the
\* assistant turn, push it, branch.
LogAssistantTurn(e) ==
  /\ h[e].pc = "log_assistant"
  /\ LET responseMessage == sanitizeResponseMessage(h[e].response.message)
     IN IF ~h[e].response.usage
        THEN /\ h' = [h EXCEPT ![e] = Throw(h[e], "TypeError")]
             /\ UNCHANGED <<log, trace, pm>>
        ELSE logConversation(e, responseMessage.role, responseMessage,
               AfterAssistant([h[e] EXCEPT !.conversation = Append(@, responseMessage)],
                              responseMessage, h[e].response.finish_reason))
  /\ UNCHANGED <<now, ticks, uuids, pm>>

\* Mutant of AfterGateway: a gateway failure leaves handleEvent.
AfterGateway_Rethrows(f, ok) ==
  IF ok THEN [f EXCEPT !.toolResult = "result", !.pc = "log_tool"] ELSE Throw(f, "gateway")

\* Lines 617-627: the gateway's answer, or the structured error put in its place.
AfterGateway(f, ok) ==
  [f EXCEPT !.toolResult = IF ok THEN "result" ELSE "error", !.pc = "log_tool"]

\* The argument set with no entries.
EmptyArgs == "{}"

\* Mutant of ParseArguments: arguments that do not parse are passed on as they are.
ParseArguments_KeepsRaw(f, argsRaw) ==
  [f EXCEPT !.parsedArgs = IF argsRaw = "" THEN EmptyArgs
                           ELSE IF argsRaw = "json" THEN "args" ELSE argsRaw]

\* Lines 607-615: the arguments of the call are parsed ('{}' when there are
\* none); when they do not parse the error is logged and the set stays empty.
ParseArguments(f, argsRaw) ==
  [f EXCEPT !.parsedArgs = IF argsRaw = "" THEN EmptyArgs
                           ELSE IF argsRaw = "json" THEN "args" ELSE EmptyArgs]

\* The fields of a gateway result that the tool turn looks for.
ResultKeys == {"result.content", "messages"}

\* Lines 605-627: the next tool call of the batch is sent to the gateway,
\* which fails or answers with a result holding the fields of one of shapes.
CallTool(e, shapes) ==
  /\ h[e].pc = "tools"
  /\ \E ok \in BOOLEAN : \E keys \in (IF ok THEN shapes ELSE {{}}) :
       LET call == h[e].toolCalls[h[e].call]
           f == ParseArguments(h[e], call.arguments)
       IN /\ h' = [h EXCEPT ![e] = [AfterGateway(f, ok) EXCEPT !.resultKeys = keys]]
          /\ trace' = [trace EXCEPT ![e].gatewayCalls = @ + 1,
                                    ![e].gateway = Append(@, [id |-> call.id, ok |-> ok,
                                                              args |-> f.parsedArgs,
                                                              name |-> call.name])]
  /\ UNCHANGED <<log, now, ticks, uuids, pm>>

\* Mutant of NextCall: the for loop does not move on to the next call.
NextCall_RepeatsCall(f) == [f EXCEPT !.pc = "tools"]

\* Mutant of NextCall: the batch ends after its first call.
NextCall_EndsBatch(f) ==
  [f EXCEPT !.call = 0, !.toolCalls = <<>>, !.pc = "model"]

\* Line 605: the for loop goes on to the next call, or the while loop to the model.
NextCall(f) ==
  IF f.call < Len(f.toolCalls)
  THEN [f EXCEPT !.call = @ + 1, !.pc = "tools"]
  ELSE [f EXCEPT !.call = 0, !.toolCalls = <<>>, !.pc = "model"]

\* Mutant of contentArray: the messages field is looked at first.
contentArray_MessagesFirst(f) ==
  IF "messages" \in f.resultKeys THEN "messages"
  ELSE IF "result.content" \in f.resultKeys THEN "result.content"
  ELSE f.toolResult

\* Lines 629-641: what the tool turn holds: result.content of the tool result,
\* else its messages, else the tool result itself (the gateway's result or
\* the structured error) in a list of one.
contentArray(f) ==
  IF "result.content" \in f.resultKeys THEN "result.content"
  ELSE IF "messages" \in f.resultKeys THEN "messages"
  ELSE f.toolResult

\* Lines 629-662: build the tool turn, persist it, push it.
LogToolTurn(e) ==
  /\ h[e].pc = "log_tool"
  /\ LET toolMessage == ToolMessage(h[e].toolCalls[h[e].call], contentArray(h[e]))
     IN logConversation(e, "tool", toolMessage,
          NextCall([h[e] EXCEPT !.conversation = Append(@, toolMessage),
                                !.parsedArgs = "none", !.toolResult = "none",
                                !.resultKeys = {}]))
  /\ UNCHANGED <<now, ticks, uuids, pm>>

\* What the speech endpoint can give: audio data, a response without audio
\* data, or an error (transport or status).
TTSOutcomes == {"audio", "missing", "error"}

\* One message of the outgoing set.
OutMessage(type, body) == [type |-> type, body |-> body]

\* Mutant of outgoingMessages: an audio message is pushed for every audio
\* input, whatever the speech endpoint gave.
outgoingMessages_AlwaysAudio(f, tts) ==
  LET finalAssistantText == Last(f.conversation).content
  IN IF f.hasAudioInput
     THEN <<OutMessage("text", finalAssistantText), OutMessage("audio", <<"audio", 0, 0>>)>>
     ELSE <<OutMessage("text", finalAssistantText)>>

\* Lines 681-705: the final text, and for an audio input the speech made
\* from it; an error or a response without audio data is caught and logged.
outgoingMessages(f, tts) ==
  LET finalAssistantText == Last(f.conversation).content
  IN IF f.hasAudioInput /\ tts = "audio"
     THEN <<OutMessage("text", finalAssistantText), OutMessage("audio", <<"audio", 0, 0>>)>>
     ELSE <<OutMessage("text", finalAssistantText)>>

\* Mutant of Deliver: the reply is pushed whether or not there are recipients.
Deliver_AlwaysPushes(e) ==
  /\ h[e].pc = "deliver"
  /\ LET interims == IF h[e].event.is_bot THEN 0 ELSE 1
     IN /\ h' = [h EXCEPT ![e].pc = IF h[e].event.is_bot THEN "done" ELSE "episode",
                          ![e].result = IF h[e].event.is_bot THEN "void" ELSE @]
        /\ trace' = [trace EXCEPT ![e].deliveries = @ + 1, ![e].interims = @ + interims]
  /\ UNCHANGED <<log, now, ticks, uuids, pm>>

\* Lines 666-750: the interim notice for a sender that is not automated, then
\* the reply is pushed to the recipients, or returned when there are none.
\* After a push the episode is logged for a sender that is not automated.
Deliver(e) ==
  /\ h[e].pc = "deliver"
  /\ \E tts \in (IF h[e].hasAudioInput THEN TTSOutcomes ELSE {"none"}) :
       LET interims == IF h[e].event.is_bot THEN 0 ELSE 1
           outgoing == outgoingMessages(h[e], tts)
       IN IF h[e].event.recipients
          THEN /\ h' = [h EXCEPT ![e].pc = IF h[e].event.is_bot THEN "done" ELSE "episode",
                                 ![e].result = IF h[e].event.is_bot THEN "void" ELSE @]
               /\ trace' = [trace EXCEPT ![e].deliveries = @ + 1, ![e].interims = @ + interims,
                                         ![e].outgoing = outgoing, ![e].tts = tts]
          ELSE /\ h' = [h EXCEPT ![e].pc = "done", ![e].result = "reply"]
               /\ trace' = [trace EXCEPT ![e].interims = @ + interims,
                                         ![e].outgoing = outgoing, ![e].tts = tts]
  /\ UNCHANGED <<log, now, ticks, uuids, pm>>

\* Lines 731-740: sendGraphitiEpisode rethrows its error (graphiti.ts:76-79)
\* and the await stands in no try block.
AfterEpisode(f, ok) ==
  IF ok THEN [f EXCEPT !.pc = "done", !.result = "void"] ELSE Throw(f, "episode")

\* Lines 22-84 of graphiti.ts, called at line 731.
sendGraphitiEpisode(e) ==
  /\ h[e].pc = "episode"
  /\ \E ok \in BOOLEAN :
       /\ h' = [h EXCEPT ![e] = AfterEpisode(h[e], ok)]
       /\ trace' = [trace EXCEPT ![e].episodes = Append(@, ok)]
  /\ UNCHANGED <<log, now, ticks, uuids, pm>>

\* The model may be invoked again: a retry of the invocation under way is
\* always allowed, a new invocation while fewer than n were made.
MayInvoke(e, n) == h[e].attempt > 0 \/ ModelCalls(Events) < n

\* Requests with sessions: two requests one after the other, time passing.
Next ==
  \/ ticks < MaxTicks /\ Tick
  \/ \E e \in Events : \E ev \in CoreEvents(log) : Start(e, ev)
  \/ \E e \in Events : SessionNew(e)
  \/ \E e \in Events : SessionLatest(e)
  \/ \E e \in Events : SessionById(e)
  \/ \E e \in Events : LogSystemTurn(e)
  \/ \E e \in Events : LogUserTurn(e)
  \/ \E e \in Events : ListTools(e)
  \/ \E e \in Events : MayInvoke(e, MaxModelCalls) /\ getLLMResponse(e, CoreKinds \cup CoreFailures)
  \/ \E e \in Events : LogAssistantTurn(e)
  \/ \E e \in Events : GatewayCalls(Events) < MaxGatewayCalls /\ CallTool(e, {{}})
  \/ \E e \in Events : LogToolTurn(e)
  \/ \E e \in Events : Deliver(e)

Spec == Init /\ [][Next]_vars

\* The tool-call loop: one request, every kind of model response.
NextLoop ==
  \/ \E ev \in CoreEvents(log) : Start(1, ev)
  \/ SessionNew(1)
  \/ SessionLatest(1)
  \/ SessionById(1)
  \/ LogSystemTurn(1)
  \/ LogUserTurn(1)
  \/ ListTools(1)
  \/ MayInvoke(1, LoopModelCalls) /\ getLLMResponse(1, LoopKinds \cup LoopFailures)
  \/ LogAssistantTurn(1)
  \/ GatewayCalls(Events) < LoopGatewayCalls /\ CallTool(1, SUBSET ResultKeys)
  \/ LogToolTurn(1)
  \/ Deliver(1)

SpecLoop == Init /\ [][NextLoop]_vars

\* Responses the service can give although nothing in the request asks for
\* them: a call of a tool that was not offered, a body without usage.
OddKinds == {<<"final", 0>>, <<"tools", 1>>, <<"othertool", 1>>, <<"nousage", 0>>}

OddModelCalls == 2

OddGatewayCalls == 2

NextOdd ==
  \/ \E ev \in CoreEvents(log) : Start(1, ev)
  \/ SessionNew(1)
  \/ SessionLatest(1)
  \/ SessionById(1)
  \/ LogSystemTurn(1)
  \/ LogUserTurn(1)
  \/ ListTools(1)
  \/ MayInvoke(1, OddModelCalls) /\ getLLMResponse(1, OddKinds \cup CoreFailures)
  \/ LogAssistantTurn(1)
  \/ GatewayCalls(Events) < OddGatewayCalls /\ CallTool(1, {{}})
  \/ LogToolTurn(1)
  \/ Deliver(1)

SpecOdd == Init /\ [][NextOdd]_vars

\* Which events a request of the enrichment specification may be.
EventsOf(e, l) == IF e = 1 THEN SeedEvents ELSE EdgeEvents(l) \cup InvalidEvents

\* Sessions of a person: a first request that starts a session, then requests
\* of a sender that is not automated, valid or not, time passing.
NextEdge ==
  \/ ticks < MaxTicks /\ Tick
  \/ \E e \in Events : \E ev \in EventsOf(e, log) : Start(e, ev)
  \/ \E e \in Events : SessionNew(e)
  \/ \E e \in Events : SessionLatest(e)
  \/ \E e \in Events : SessionById(e)
  \/ \E e \in Events : SendInterim(e)
  \/ \E e \in Events : searchGraphiti(e)
  \/ \E e \in Events : LogSystemTurn(e)
  \/ \E e \in Events : LogUserTurn(e)
  \/ \E e \in Events : ListTools(e)
  \/ \E e \in Events : MayInvoke(e, EdgeModelCalls)
                          /\ getLLMResponse(e, {<<"final", 0>>} \cup CoreFailures)
  \/ \E e \in Events : LogAssistantTurn(e)
  \/ \E e \in Events : Deliver(e)
  \/ \E e \in Events : sendGraphitiEpisode(e)

SpecEdge == Init /\ [][NextEdge]_vars

\* Events with and without an audio message, from automated senders and
\* people, with and without recipients.
VoiceEvents ==
  {Event("u1", NoSession, "new", "a1", NoAgent, b, r, a, FALSE, "ok") :
     b \in BOOLEAN, r \in BOOLEAN, a \in BOOLEAN}

VoiceModelCalls == 2

\* Requests with audio input: the final answer is also spoken.
NextVoice ==
  \/ \E e \in Events : \E ev \in VoiceEvents : Start(e, ev)
  \/ \E e \in Events : SessionNew(e)
  \/ \E e \in Events : SendInterim(e)
  \/ \E e \in Events : LogSystemTurn(e)
  \/ \E e \in Events : LogUserTurn(e)
  \/ \E e \in Events : ListTools(e)
  \/ \E e \in Events : MayInvoke(e, VoiceModelCalls)
                          /\ getLLMResponse(e, {<<"final", 0>>} \cup CoreFailures)
  \/ \E e \in Events : LogAssistantTurn(e)
  \/ \E e \in Events : Deliver(e)
  \/ \E e \in Events : sendGraphitiEpisode(e)

SpecVoice == Init /\ [][NextVoice]_vars

\* Requests handled at the same time: handleEvent is async and the server
\* starts it for every incoming event, so the stretches between the awaits
\* of RaceInFlight requests interleave.
RaceInFlight == 2

RaceModelCalls == 2

\* The session an earlier request left in the log store.
SeedSession == 1

SeedRow(role, message) ==
  [role |-> role, message |-> JSONstringify(message), user_id |-> "u1",
   session_id |-> SeedSession, agent_id |-> "a1", timestamp |-> 0]

\* The rows of a request that reset the session and got a final answer.
SeedLog ==
  <<SeedRow("system", SystemMessage("a1", 0)),
    SeedRow("system", convertEventToUserMessage(0)),
    SeedRow("assistant", sanitizeResponseMessage(ResponseMessage(0, 1, 0, TRUE)))>>

\* The log store outlives the process: the orchestrator is constructed over
\* a log that holds one session of the user, written at second 0; the clock
\* stands at the staleness threshold after it, or one millisecond later.
InitRace ==
  /\ log = SeedLog
  /\ now \in {timeThreshold, timeThreshold + 1}
  /\ ticks = 0
  /\ uuids = SeedSession
  /\ h = [e \in Events |-> IdleFrame]
  /\ trace = [e \in Events |-> NoTrace]
  /\ pm = NoParse

\* The events of one user, with or without the reset command.
RaceEvents ==
  {Event("u1", NoSession, c, "a1", NoAgent, TRUE, TRUE, FALSE, TRUE, "ok") : c \in {"new", "none"}}

NextRace ==
  \/ \E e \in Events : \E ev \in RaceEvents : Begin(e, ev, RaceInFlight)
  \/ \E e \in Events : SessionNew(e)
  \/ \E e \in Events : SessionLatest(e)
  \/ \E e \in Events : LogSystemTurn(e)
  \/ \E e \in Events : LogUserTurn(e)
  \/ \E e \in Events : ListTools(e)
  \/ \E e \in Events : MayInvoke(e, RaceModelCalls) /\ getLLMResponse(e, {<<"final", 0>>})
  \/ \E e \in Events : LogAssistantTurn(e)
  \/ \E e \in Events : Deliver(e)

SpecRace == InitRace /\ [][NextRace]_vars

\* Events of the user whose client names agent a1, with or without an
\* override to agent a2.
SwitchEvents ==
  {Event("u1", NoSession, "none", "a1", o, TRUE, TRUE, FALSE, TRUE, "ok") : o \in {NoAgent, "a2"}}

SwitchModelCalls == 2

\* Requests one after the other over the session the log holds.
NextSwitch ==
  \/ \E e \in Events : \E ev \in SwitchEvents : Start(e, ev)
  \/ \E e \in Events : SessionLatest(e)
  \/ \E e \in Events : LogSystemTurn(e)
  \/ \E e \in Events : LogUserTurn(e)
  \/ \E e \in Events : ListTools(e)
  \/ \E e \in Events : MayInvoke(e, SwitchModelCalls) /\ getLLMResponse(e, {<<"final", 0>>})
  \/ \E e \in Events : LogAssistantTurn(e)
  \/ \E e \in Events : Deliver(e)

SpecSwitch == InitRace /\ [][NextSwitch]_vars

\* The pieces texts are made of, and the texts of up to MaxPieces pieces.
Pieces ==
  {<<"[">>, <<"]">>, <<" ">>, <<"x">>, <<";">>, <<":">>,
   <<"[", "s", ":", "n", "e", "w", "]">>, <<"[", "S", ":", "N", "e", "W", "]">>,
   <<"[", "s", ":", "n", "]">>, <<"[", "S", ":", "N", "]">>,
   <<"[", "a", ":", "F", "o", "]">>, <<"[", "A", ":", "b", "]">>,
   <<"[", "s", ":", "n", ";", "a", ":", "F", "o", "]">>,
   <<"[", "s", ":", "x", "]">>, <<"[", "x", ":", "n", "]">>}

RECURSIVE Flatten(_)
Flatten(ps) == IF ps = <<>> THEN <<>> ELSE Head(ps) \o Flatten(Tail(ps))

Texts == UNION {{Flatten(ps) : ps \in [1..n -> Pieces]} : n \in 0..MaxPieces}

InitParse ==
  /\ log = <<>>
  /\ now = 500
  /\ ticks = 0
  /\ uuids = 0
  /\ h = [e \in Events |-> IdleFrame]
  /\ trace = [e \in Events |-> NoTrace]
  /\ pm \in {[stage |-> "raw", raw |-> t, out |-> NoResult, again |-> NoResult] : t \in Texts}

\* parseMessage(message.text), line 122 of the orchestrator.
Parse ==
  /\ pm.stage = "raw"
  /\ pm' = [pm EXCEPT !.stage = "parsed", !.out = parseMessage(pm.raw)]
  /\ UNCHANGED <<log, now, ticks, uuids, h, trace>>

\* parseMessage applied to the cleaned text of an earlier call.
ParseAgain ==
  /\ pm.stage = "parsed"
  /\ pm' = [pm EXCEPT !.stage = "again", !.again = parseMessage(pm.out.cleanText)]
  /\ UNCHANGED <<log, now, ticks, uuids, h, trace>>

NextParse ==
  \/ Parse
  \/ ParseAgain

SpecParse == InitParse /\ [][NextParse]_vars

(***************************************************************************)
(* Properties.                                                             *)
(***************************************************************************)
\* The request has passed session resolution.
Resolved(e) == h[e].pc \notin {"idle", "session"} /\ h[e].error # "input"

UserBound(e) == h[e].event.user_id # NoUser

\* A model response that ends the loop: no tool call, a normal stop, content.
Terminal(r) ==
  /\ r.message.role = "assistant"
  /\ Len(r.message.tool_calls) = 0
  /\ r.finish_reason = "stop"
  /\ r.message.content[1] # "null"

\* C1: once a model response with zero tool calls, finish_reason 'stop' and
\* non-null content was received, the request makes no further model
\* invocation and no tool-gateway invocation.
C1_TerminalResponseEndsLoop ==
  [][\A e \in Events :
       Terminal(h[e].response) =>
         /\ trace'[e].modelCalls = trace[e].modelCalls
         /\ trace'[e].gatewayCalls = trace[e].gatewayCalls]_vars

\* A request that ended after a terminal response, having looped before it.
C1_Witness ==
  \E e \in Events :
    /\ Terminal(h[e].response)
    /\ h[e].pc = "done"
    /\ trace[e].modelCalls >= 2

\* The last turn of a conversation that has the role.
LastTurnOfRole(c, role) == c[Max({i \in DOMAIN c : c[i].role = role})]

\* Index of the last assistant turn of a conversation (0 if none).
LastAssistant(c) ==
  IF \E i \in DOMAIN c : c[i].role = "assistant"
  THEN Max({i \in DOMAIN c : c[i].role = "assistant"})
  ELSE 0

\* The last n rows the request appended.
LastAppended(e, n) == SubSeq(trace[e].appended, Len(trace[e].appended) - n + 1,
                             Len(trace[e].appended))

\* The outcomes of the last n gateway calls of the request.
LastOutcomes(e, n) == SubSeq(trace[e].gateway, Len(trace[e].gateway) - n + 1,
                             Len(trace[e].gateway))

\* The request is back at the model invocation after a batch of tool calls.
BatchDone(e) ==
  /\ h[e].pc = "model"
  /\ h[e].conversation # <<>>
  /\ Last(h[e].conversation).role = "tool"

\* C2: for an assistant turn with N >= 1 tool-call requests, whichever gateway
\* calls fail, the request comes back to the model invocation with exactly N
\* tool turns persisted after the assistant turn, one per request in request
\* order, a failed call's turn holding the error result; a request in the
\* middle of a batch fails only when a log append fails.
C2_BatchPersistedDespiteFailures ==
  \A e \in Events :
    /\ BatchDone(e) =>
         LET c == h[e].conversation
             a == LastAssistant(c)
             N == Len(c[a].tool_calls)
         IN /\ a > 0 /\ N >= 1
            /\ Len(c) = a + N
            /\ Len(trace[e].appended) > N /\ Len(trace[e].gateway) >= N
            /\ log[trace[e].appended[Len(trace[e].appended) - N]].message
                 = JSONstringify(c[a])
            /\ \A i \in 1..N :
                 LET row == log[LastAppended(e, N)[i]]
                     out == LastOutcomes(e, N)[i]
                 IN /\ row.role = "tool"
                    /\ row.session_id = h[e].sessionId
                    /\ row.message = JSONstringify(c[a + i])
                    /\ c[a + i].tool_call_id = c[a].tool_calls[i].id
                    /\ out.id = c[a].tool_calls[i].id
                    /\ (c[a + i].content[1] = "error") <=> ~out.ok
    /\ (h[e].pc = "failed" /\ h[e].call > 0) => h[e].error = "log"

\* A batch of two calls, one failed and one not, after which the model was
\* invoked again.
C2_Witness ==
  \E e \in Events :
    /\ h[e].pc = "log_assistant"
    /\ trace[e].modelCalls = 2
    /\ Len(trace[e].gateway) = 2
    /\ ~trace[e].gateway[1].ok
    /\ trace[e].gateway[2].ok
    /\ Len(h[e].conversation) >= 3
    /\ Last(h[e].conversation).role = "tool"
    /\ Last(h[e].conversation).content[1] = "result"

\* The request is user-bound, carries no reset command and has read its rows.
ReadLatest(e) == Resolved(e) /\ UserBound(e) /\ h[e].sessionCommand # "new"

\* The rows that were in the log when the request resolved its session.
EarlierRows(e) == 1..trace[e].readLen

\* The request was resolved as a reset: it replayed nothing, and its
\* conversation starts with the system turn it persisted.
IsReset(e) ==
  /\ h[e].branch \in {"new", "stale"}
  /\ h[e].pc # "failed" \/ h[e].error \in {"log", "mcp", "llm", "episode"}
  /\ h[e].pc \notin {"interim", "search", "log_system", "failed"} =>
       /\ h[e].conversation[1].role = "system"
       /\ trace[e].appended # <<>>
       /\ log[trace[e].appended[1]].message = JSONstringify(h[e].conversation[1])
       /\ log[trace[e].appended[1]].session_id = h[e].sessionId

\* C3: a user-bound request without a reset command whose user has no prior
\* turns is resolved as a reset under a newly generated session id and goes on
\* to the user turn and the model call instead of failing.
C3_NoHistoryResets ==
  \A e \in Events :
    (ReadLatest(e) /\ trace[e].rows = <<>>) =>
      /\ IsReset(e)
      /\ h[e].error # "TypeError"
      /\ \A i \in EarlierRows(e) : log[i].session_id # h[e].sessionId

\* Time between the newest row the request read and the read, in milliseconds.
Gap(e) == trace[e].readAt - log[trace[e].latest].timestamp * 1000

\* C4: a user-bound request without a reset command and with prior turns is
\* reset if and only if the time since the most recent turn is strictly more
\* than 3 hours; otherwise it continues under the session id of that turn.
C4_StaleIffOverThreeHours ==
  \A e \in Events :
    (ReadLatest(e) /\ trace[e].rows # <<>>) =>
      /\ (h[e].branch = "stale") <=> (Gap(e) > 3 * 60 * 60 * 1000)
      /\ (Gap(e) <= 3 * 60 * 60 * 1000) =>
           /\ h[e].branch \in {"continue", "switch"}
           /\ h[e].sessionId = log[trace[e].latest].session_id
           /\ Len(h[e].conversation) >= Len(trace[e].rows)
      /\ h[e].branch = "stale" => IsReset(e)

\* A request that continued its session exactly 3 hours after the last turn.
C4_Witness ==
  \E e \in Events :
    /\ ReadLatest(e) /\ trace[e].rows # <<>>
    /\ Gap(e) = 3 * 60 * 60 * 1000
    /\ h[e].branch = "continue"
    /\ h[e].pc = "model"

\* C5: on a user-bound request with the session command `new`, the session id
\* the request persists under differs from every session id already in the log
\* and from the one in the event metadata, and the conversation before the
\* user turn is exactly one system turn.
C5_NewCommandAllocatesSession ==
  \A e \in Events :
    (Resolved(e) /\ UserBound(e) /\ h[e].sessionCommand = "new") =>
      /\ h[e].sessionId # h[e].event.sessionId
      /\ \A i \in EarlierRows(e) : log[i].session_id # h[e].sessionId
      /\ h[e].pc = "list_tools" =>
           /\ Len(h[e].conversation) = 2
           /\ h[e].conversation[1].role = "system"
           /\ h[e].conversation[2].role = "user"

\* C6: when the most recent turn read by a user-bound request (no reset
\* command) is within the threshold, every row the request appends carries the
\* session id of that turn, and its conversation starts with all rows of that
\* session, in timestamp order, none omitted.
C6_ContinuationReplaysSession ==
  \A e \in Events :
    (ReadLatest(e) /\ trace[e].rows # <<>> /\ Gap(e) <= 3 * 60 * 60 * 1000) =>
      LET rows == trace[e].rows
          sid == log[trace[e].latest].session_id
      IN /\ \A i \in Range(trace[e].appended) : log[i].session_id = sid
         /\ Range(rows) = {i \in 1..trace[e].readLen : log[i].session_id = sid}
         /\ Cardinality(Range(rows)) = Len(rows)
         /\ \A i \in 1..(Len(rows) - 1) : log[rows[i]].timestamp <= log[rows[i + 1]].timestamp
         /\ Len(h[e].conversation) >= Len(rows)
         /\ \A i \in 1..Len(rows) : JSONstringify(h[e].conversation[i]) = log[rows[i]].message

\* A request that replayed rows of two different seconds and appended a turn
\* under a session id it did not allocate.
C6_Witness ==
  \E e \in Events :
    /\ ReadLatest(e) /\ h[e].branch = "continue"
    /\ Len(trace[e].rows) >= 3
    /\ log[trace[e].rows[1]].timestamp < log[Last(trace[e].rows)].timestamp
    /\ Len(trace[e].appended) >= 2
    /\ h[e].event.sessionId = NoSession

\* The request replayed a session into its conversation.
Replayed(e) == Resolved(e) /\ h[e].branch \in {"continue", "switch", "replay"}

\* The rows of a session that were in the log at the request's read, in the
\* order they were persisted.
Persisted(e, sid) == SessionRows(SubSeq(log, 1, trace[e].readLen), sid)

\* C7: a session replayed into a conversation gives the roles and contents of
\* its turns in the order they were persisted, also for turns persisted within
\* the same second.
C7_ReplayReproducesOrder ==
  \A e \in Events :
    Replayed(e) =>
      LET p == Persisted(e, h[e].sessionId)
      IN /\ Len(trace[e].rows) = Len(p)
         /\ Len(h[e].conversation) >= Len(p)
         /\ \A i \in 1..Len(p) :
              /\ h[e].conversation[i].role = JSONparse(log[p[i]].message).role
              /\ h[e].conversation[i].content = JSONparse(log[p[i]].message).content

\* Every tool turn of a conversation comes after an assistant turn that
\* requested its tool_call_id.
ToolTurnsFollowRequests(c) ==
  \A j \in DOMAIN c :
    c[j].role = "tool" =>
      \E i \in 1..(j - 1) :
        /\ c[i].role = "assistant"
        /\ \E k \in DOMAIN c[i].tool_calls : c[i].tool_calls[k].id = c[j].tool_call_id

\* C8: in every conversation passed to the model service, fresh or replayed,
\* each tool turn is preceded by the assistant turn that requested it.
C8_ToolTurnFollowsItsRequest ==
  \A e \in Events : ToolTurnsFollowRequests(trace[e].payload)

\* C9: at every model invocation each turn handed to it, the time turn aside,
\* equals a row that was in the log for the request's session when the
\* invocation was made.
C9_ModelSeesOnlyLoggedTurns ==
  \A e \in Events :
    \A j \in 1..(Len(trace[e].payload) - 1) :
      \E i \in 1..trace[e].sentLen :
        /\ log[i].session_id = h[e].sessionId
        /\ JSONparse(log[i].message) = trace[e].payload[j]

\* A model invocation whose conversation holds replayed turns and an assistant
\* turn and a tool turn of this request.
C9_Witness ==
  \E e \in Events :
    /\ h[e].branch = "continue"
    /\ trace[e].modelCalls = 2
    /\ Len(trace[e].payload) >= Len(trace[e].rows) + 4
    /\ trace[e].payload[Len(trace[e].payload) - 1].role = "tool"
    /\ Last(trace[e].payload) = timeSystemMessage

\* C10: once a log append of a request has failed, the request has failed
\* with that error and does nothing more: no model call, no gateway call, no
\* delivery.
C10_LogFailureIsFatal ==
  /\ [](\A e \in Events : trace[e].appendFailed => (h[e].pc = "failed" /\ h[e].error = "log"))
  /\ [][\A e \in Events : trace[e].appendFailed => (trace'[e] = trace[e] /\ h'[e] = h[e])]_vars

\* A request that failed on the append of a tool turn.
C10_Witness ==
  \E e \in Events :
    /\ trace[e].appendFailed
    /\ h[e].pc = "failed"
    /\ h[e].toolResult # "none"
    /\ trace[e].gatewayCalls = 1
    /\ trace[e].deliveries = 0

\* The reply is one after which an attempt is retried: a transport failure, a
\* non-success status, or a payload lacking a first choice with a message.
Retryable(r) ==
  \/ ~r.fetched
  \/ ~r.ok
  \/ r.choices = <<>>
  \/ r.choices[1].message.role = ""

\* C11: one model invocation makes at most 3 attempts; an attempt whose reply
\* is accepted returns it and is the last of the invocation, and an attempt is
\* followed by another one only when its reply was a transport failure, a
\* non-success status or a payload lacking a first choice with a message.
C11_AtMostThreeAttempts ==
  /\ [](\A e \in Events : h[e].attempt <= 3 /\ (h[e].pc = "model" => h[e].attempt < 3))
  /\ [][\A e \in Events :
          (h[e].pc = "model" /\ h'[e] # h[e]) =>
            LET r == trace'[e].reply
            IN /\ trace'[e].modelCalls
                    = trace[e].modelCalls + (IF h[e].attempt = 0 THEN 1 ELSE 0)
               /\ IF Retryable(r)
                  THEN /\ h'[e].attempt = h[e].attempt + 1
                       /\ h'[e].pc = IF h[e].attempt + 1 < 3 THEN "model" ELSE "failed"
                  ELSE /\ h'[e].pc = "log_assistant"
                       /\ h'[e].attempt = 0
                       /\ h'[e].response.message = r.choices[1].message]_vars

\* The second invocation of a request is about to make its third attempt,
\* after a non-success status and then a payload without a message.
C11_Witness ==
  \E e \in Events :
    /\ h[e].pc = "model"
    /\ trace[e].modelCalls = 2
    /\ h[e].attempt = 2
    /\ h[e].lastError = "invalid"
    /\ trace[e].reply.choices # <<>>

\* The error an attempt with this reply ends with.
ErrorOf(r) ==
  IF ~r.fetched THEN "fetch" ELSE IF ~r.ok THEN "status" ELSE "invalid"

\* The invocation of the request under way failed at its third attempt.
Exhausted(e) == h[e].error = "llm"

\* C12: when all 3 attempts of an invocation fail, the request fails with the
\* error of the third attempt; no assistant turn is persisted for the
\* invocation, and afterwards no tool is executed and nothing is delivered.
C12_ExhaustedRetriesAreFatal ==
  /\ [](\A e \in Events :
          Exhausted(e) =>
            /\ h[e].pc = "failed" /\ h[e].result = "error"
            /\ h[e].attempt = 3
            /\ Retryable(trace[e].reply)
            /\ h[e].lastError = ErrorOf(trace[e].reply)
            /\ \A i \in Range(trace[e].appended) : i <= trace[e].sentLen
            /\ Cardinality({i \in Range(trace[e].appended) : log[i].role = "assistant"})
                 = trace[e].modelCalls - 1)
  /\ [][\A e \in Events : Exhausted(e) => (trace'[e] = trace[e] /\ h'[e] = h[e])]_vars

\* An invocation that failed three times, the first time with another error
\* than the last, after a batch of tool calls of the same request.
C12_Witness ==
  \E e \in Events :
    /\ Exhausted(e)
    /\ h[e].lastError = "status"
    /\ trace[e].reply.fetched
    /\ trace[e].modelCalls = 2
    /\ trace[e].gatewayCalls >= 1
    /\ trace[e].deliveries = 0

\* The enrichment lookup of the request gave nothing: it failed or was empty.
SearchFailed(e) == trace[e].searches # <<>> /\ trace[e].searches[1] \in {"empty", "error"}

\* Number of turns the request replayed before its own system turn.
ReplayedBefore(e) == IF h[e].branch = "switch" THEN Len(trace[e].rows) ELSE 0

\* C13: a failing or empty knowledge-graph search during a session reset or an
\* agent switch does not end the request: the system turn is built from the
\* agent prompt alone, persisted and pushed, and the request goes on to the
\* user turn and the model call.
C13_SearchFailureKeepsSession ==
  /\ [](\A e \in Events :
          SearchFailed(e) =>
            /\ h[e].branch \in {"new", "stale", "switch"}
            /\ h[e].graphitiContext = 0
            /\ h[e].pc \in {"log_system", "log_user", "list_tools", "model", "log_assistant",
                             "deliver", "episode", "done", "failed"}
            /\ h[e].pc = "failed" => h[e].error \in {"log", "mcp", "llm", "episode"}
            /\ trace[e].appended # <<>> =>
                 LET n == ReplayedBefore(e)
                     row == log[trace[e].appended[1]]
                     prompt == <<"prompt", AgentNo(h[e].agent_id), 0>>
                 IN /\ Len(h[e].conversation) > n
                    /\ h[e].conversation[n + 1].role = "system"
                    /\ h[e].conversation[n + 1].content = prompt
                    /\ row.role = "system"
                    /\ row.session_id = h[e].sessionId
                    /\ row.message = JSONstringify(h[e].conversation[n + 1]))
  /\ [][\A e \in Events :
          (h[e].pc = "search" /\ h'[e] # h[e] /\ Last(trace'[e].searches) # "found")
            => h'[e].pc = "log_system"]_vars

\* A request that switched the agent of a running session, whose lookup
\* failed, and which is at the model call with the new system turn.
C13_Witness ==
  \E e \in Events :
    /\ trace[e].searches = <<"error">>
    /\ h[e].branch = "switch"
    /\ h[e].pc = "model"
    /\ Len(h[e].conversation) = Len(trace[e].rows) + 2
    /\ Len(trace[e].rows) >= 3

\* C14: a failure of the episode logging after the final reply was delivered
\* to the recipients does not surface: handleEvent completes with a void
\* result.
C14_EpisodeFailureIsSilent ==
  \A e \in Events :
    (trace[e].episodes # <<>> /\ ~Last(trace[e].episodes)) =>
      /\ h[e].pc = "done"
      /\ h[e].result = "void"

\* C15: a request that reached DONE returns a structured reply if and only if
\* its event has no recipients and a void result if and only if it has some,
\* and then the final messages were pushed to them exactly once.
C15_ReplyIffNoRecipients ==
  \A e \in Events :
    h[e].pc = "done" =>
      /\ (h[e].result = "reply") <=> ~h[e].event.recipients
      /\ (h[e].result = "void") <=> h[e].event.recipients
      /\ trace[e].deliveries = IF h[e].event.recipients THEN 1 ELSE 0

\* A request of a person without recipients that ended with a reply.
C15_Witness ==
  \E e \in Events :
    /\ h[e].pc = "done"
    /\ ~h[e].event.recipients
    /\ ~h[e].event.is_bot
    /\ h[e].result = "reply"
    /\ trace[e].modelCalls = 1

\* The event has an input error: no messages, no agent id, a text part
\* without text, or an agent id the registry does not hold.
InputError(ev) ==
  \/ ev.messages \in {"missing", "notext"}
  \/ ev.agent_id = "none"
  \/ (IF ev.override # "none" THEN ev.override ELSE ev.agent_id) \notin {"a1", "a2"}

\* C16: a request rejected for an input error has processed nothing: it
\* appended no turn, made no model or tool call, sent no message, and the log
\* is as it was.
C16_InputErrorProcessesNothing ==
  /\ [](\A e \in Events :
          (h[e].pc # "idle" /\ InputError(h[e].event)) =>
            /\ h[e].pc = "failed" /\ h[e].error = "input"
            /\ h[e].conversation = <<>>
            /\ trace[e] = NoTrace)
  /\ [][\A e \in Events :
          (h[e].pc = "idle" /\ h'[e].pc # "idle" /\ InputError(h'[e].event))
            => (log' = log /\ trace' = trace /\ uuids' = uuids)]_vars

\* A request rejected because the overriding agent id is unknown, while the
\* log holds the turns of an earlier request.
C16_Witness ==
  \E e \in Events :
    /\ h[e].pc = "failed" /\ h[e].error = "input"
    /\ h[e].event.override = "zz"
    /\ h[e].event.agent_id = "a1"
    /\ h[e].event.messages = "ok"
    /\ Len(log) >= 3

\* The rows of the request's session that were in the log when it resolved it.
HadRows(e) == {i \in EarlierRows(e) : log[i].session_id = h[e].sessionId}

\* C20: a request without a user id and without a session id gets a newly
\* allocated session id and a bare system turn (agent prompt only, no
\* enrichment lookup) persisted under it; with a session id, all persisted
\* turns of that id are replayed, or a bare system turn is persisted under
\* that id when there are none.
C20_AnonymousSessionById ==
  \A e \in Events :
    (Resolved(e) /\ ~UserBound(e)) =>
      /\ trace[e].searches = <<>>
      /\ h[e].graphitiContext = 0
      /\ h[e].event.sessionId = NoSession =>
           /\ h[e].sessionId # NoSession
           /\ HadRows(e) = {}
      /\ h[e].event.sessionId # NoSession => h[e].sessionId = h[e].event.sessionId
      /\ h[e].branch = IF HadRows(e) = {} THEN "bare" ELSE "replay"
      /\ h[e].branch = "replay" =>
           /\ Range(trace[e].rows) = HadRows(e)
           /\ Len(trace[e].rows) = Cardinality(HadRows(e))
           /\ Len(h[e].conversation) >= Len(trace[e].rows)
           /\ \A i \in 1..Len(trace[e].rows) :
                JSONstringify(h[e].conversation[i]) = log[trace[e].rows[i]].message
      /\ (h[e].branch = "bare" /\ trace[e].appended # <<>>) =>
           LET row == log[trace[e].appended[1]]
           IN /\ row.role = "system"
              /\ row.session_id = h[e].sessionId
              /\ h[e].conversation[1].role = "system"
              /\ h[e].conversation[1].content = <<"prompt", AgentNo(h[e].agent_id), 0>>
              /\ row.message = JSONstringify(h[e].conversation[1])
      /\ (h[e].branch = "bare" /\ trace[e].appended = <<>>) =>
           (h[e].pc = "log_system" \/ (h[e].pc = "failed" /\ h[e].error = "log"))

\* A request without user id that replayed the session it named and is at
\* the model call.
C20_Witness ==
  \E e \in Events :
    /\ ~UserBound(e) /\ h[e].pc = "model"
    /\ h[e].event.sessionId # NoSession
    /\ h[e].branch = "replay"
    /\ Len(trace[e].rows) >= 3
    /\ Len(h[e].conversation) = Len(trace[e].rows) + 1

\* The text t holds the text p somewhere.
Contains(t, p) == \E i \in 1..(Len(t) - Len(p) + 1) : SubSeq(t, i, i + Len(p) - 1) = p

\* The reset directive, in lower case: [s:new] and its abbreviation [s:n].
ResetDirectives == {<<"[", "s", ":", "n", "e", "w", "]">>, <<"[", "s", ":", "n", "]">>}

\* C17: for every text that holds [s:new] or [s:n], in any letter case,
\* parseMessage returns the session command 'new' and a cleaned text that no
\* longer holds that bracket group.
C17_ResetDirectiveIsRecognised ==
  pm.stage \in {"parsed", "again"} =>
    \A d \in ResetDirectives :
      Contains(toLowerCase(pm.raw), d) =>
        /\ pm.out.sessionCommand = "new"
        /\ ~Contains(toLowerCase(pm.out.cleanText), d)

\* The characters a key or a value is not made of.
Delimiters == {"[", "]", ";", ":", " "}

\* The values V of the groups [a:V] and [A:V] of a text, V not empty.
AgentValues(t) ==
  {SubSeq(t, i + 3, j - 1) : <<i, j>> \in
     {<<a, b>> \in (1..Len(t)) \X (1..Len(t)) :
        /\ a + 3 < b
        /\ t[a] = "[" /\ t[a + 1] \in {"a", "A"} /\ t[a + 2] = ":" /\ t[b] = "]"
        /\ \A x \in (a + 3)..(b - 1) : t[x] \notin Delimiters}}

\* C18: for every text that holds a group [a:V] or [A:V] with a non-empty
\* value V, parseMessage returns an agent-id override that is such a V, in
\* its original casing and in full.
C18_OverrideKeepsValue ==
  pm.stage \in {"parsed", "again"} =>
    (AgentValues(pm.raw) # {} => pm.out.agent_idOverride \in AgentValues(pm.raw))

\* The text holds no bracketed group: no "[" with a "]" further on and
\* something between them.
NoGroup(t) == ~\E i \in 1..Len(t) : \E j \in (i + 2)..Len(t) : t[i] = "[" /\ t[j] = "]"

\* C19: for a text without a bracketed group parseMessage returns the trimmed
\* text, no session command and no override; and for any text, parseMessage
\* applied to its own cleaned text returns that text unchanged, with no
\* command and no override.
C19_ParseIsIdempotent ==
  /\ (pm.stage \in {"parsed", "again"} /\ NoGroup(pm.raw)) =>
       pm.out = ParseResult(trim(pm.raw), "undefined", Undefined)
  /\ pm.stage = "again" =>
       pm.again = ParseResult(pm.out.cleanText, "undefined", Undefined)

\* A text with a directive group between two letters was parsed, and its
\* cleaned text was parsed again.
C19_Witness ==
  /\ pm.stage = "again"
  /\ pm.out.sessionCommand = "new"
  /\ pm.out.agent_idOverride = <<"F", "o">>
  /\ pm.out.cleanText = <<"x", "x">>
  /\ pm.raw[1] = "x"

\* The role of the turn a row of the log holds.
TurnRole(i) == JSONparse(log[i].message).role

\* The request builds a system turn of its own.
CreatesSystemTurn(e) == h[e].branch \in {"new", "stale", "switch", "bare"}

\* C21: in a request that creates a system turn, that turn is appended to the
\* log before the request's user turn, and the user turn is appended before
\* the first model invocation.
C21_SystemThenUserThenModel ==
  \A e \in Events :
    LET a == trace[e].appended
    IN /\ (CreatesSystemTurn(e) /\ a # <<>>) =>
            /\ TurnRole(a[1]) = "system"
            /\ \A k \in 2..Len(a) : TurnRole(a[k]) # "system"
            /\ Len(a) >= 2 => (TurnRole(a[2]) = "user" /\ a[1] < a[2])
       /\ \A k \in 1..Len(a) :
            TurnRole(a[k]) = "user" => k = (IF CreatesSystemTurn(e) THEN 2 ELSE 1)
       /\ trace[e].modelCalls >= 1 =>
            \E k \in 1..Len(a) : TurnRole(a[k]) = "user" /\ a[k] <= trace[e].sentLen
       /\ h[e].pc \in {"model", "log_assistant", "deliver", "episode", "done"} =>
            \E k \in 1..Len(a) : TurnRole(a[k]) = "user"

\* A request that reset a stale session and is at its first model call.
C21_Witness ==
  \E e \in Events :
    /\ h[e].branch = "stale"
    /\ h[e].pc = "model"
    /\ trace[e].modelCalls = 0
    /\ Len(trace[e].appended) = 2
    /\ Len(log) >= 4

\* C22: a request that continues an active session with an agent override
\* keeps all persisted turns of the session in its conversation, puts one new
\* system turn built from the new agent's prompt after them and before the
\* user turn, and makes every model call with the new agent's model.
C22_SwitchKeepsHistory ==
  \A e \in Events :
    (ReadLatest(e) /\ h[e].event.override = "a2" /\ h[e].branch \notin {"none", "stale"}) =>
      LET rows == trace[e].rows
          n == Len(rows)
          c == h[e].conversation
          a == trace[e].appended
      IN /\ h[e].branch = "switch"
         /\ Range(rows) = {i \in EarlierRows(e) : log[i].session_id = h[e].sessionId}
         /\ Len(c) >= n
         /\ \A i \in 1..n : JSONstringify(c[i]) = log[rows[i]].message
         /\ Len(a) >= 1 =>
              /\ Len(c) > n
              /\ c[n + 1].role = "system"
              /\ c[n + 1].content[1] = "prompt" /\ c[n + 1].content[2] = 2
              /\ log[a[1]].message = JSONstringify(c[n + 1])
              /\ log[a[1]].agent_id = "a2"
         /\ Len(a) >= 2 => (Len(c) > n + 1 /\ c[n + 2].role = "user")
         /\ \A i \in (n + 2)..Len(c) : c[i].role # "system"
         /\ trace[e].modelCalls >= 1 => trace[e].sentModel = "m2"

\* A request that switched the agent of a running session and got an answer
\* from the model.
C22_Witness ==
  \E e \in Events :
    /\ h[e].branch = "switch"
    /\ h[e].event.override = "a2"
    /\ h[e].pc = "deliver"
    /\ Len(trace[e].rows) >= 3
    /\ Len(h[e].conversation) = Len(trace[e].rows) + 3

\* C25: the tool-call loop caps its iterations: whatever the model answers,
\* the loop stops asking before the model calls the bound LoopModelCalls
\* allows are used up.
C25_LoopIsCapped ==
  \A e \in Events :
    (h[e].pc = "model" /\ h[e].attempt = 0) => trace[e].modelCalls < LoopModelCalls

\* C26: the time turn is ephemeral: it ends the conversation handed to the
\* model service, an invocation leaves the caller's conversation as it was,
\* and no time turn is in the log or in a conversation, replayed or not.
C26_TimeTurnIsEphemeral ==
  /\ [](\A e \in Events :
         /\ \A i \in DOMAIN h[e].conversation : h[e].conversation[i] # timeSystemMessage
         /\ trace[e].modelCalls >= 1 =>
              /\ Last(trace[e].payload) = timeSystemMessage
              /\ \A i \in 1..(Len(trace[e].payload) - 1) :
                   trace[e].payload[i] # timeSystemMessage)
  /\ [](\A i \in DOMAIN log : JSONparse(log[i].message).content # timeSystemMessage.content)
  /\ [][\A e \in Events :
          h[e].pc = "model" => h'[e].conversation = h[e].conversation]_vars

\* A request that replayed a session written by a request that had invoked
\* the model, and that got an answer itself.
C26_Witness ==
  /\ trace[1].modelCalls >= 1
  /\ h[2].branch = "continue"
  /\ Len(trace[2].rows) >= 3
  /\ trace[2].modelCalls = 1
  /\ h[2].pc = "deliver"
  /\ Len(trace[2].payload) = Len(h[2].conversation)

\* C27: after each persisted assistant turn the loop takes exactly one of
\* three transitions: to the tool calls if the turn carries at least one
\* request, whatever the finish reason and the content; else to the delivery
\* if the finish reason is 'stop' and the content is not null; else back to
\* the model with the turn kept in the conversation and no tool executed.
C27_OneOfThreeTransitions ==
  [][\A e \in Events :
       (h[e].pc = "log_assistant" /\ h'[e].pc \notin {"log_assistant", "failed"}) =>
         LET c == h'[e].conversation
             m == Last(c)
             r == h[e].response
         IN /\ c = Append(h[e].conversation, m)
            /\ m.role = "assistant"
            /\ m.tool_calls = r.message.tool_calls /\ m.content = r.message.content
            /\ Len(log') = Len(log) + 1
            /\ log'[Len(log')].message = JSONstringify(m)
            /\ h'[e].pc \in {"tools", "deliver", "model"}
            /\ (h'[e].pc = "tools") <=> (Len(m.tool_calls) >= 1)
            /\ (h'[e].pc = "deliver") <=>
                 (Len(m.tool_calls) = 0 /\ r.finish_reason = "stop" /\ m.content # Null)
            /\ h'[e].pc = "tools" => (h'[e].toolCalls = m.tool_calls /\ h'[e].call = 1)
            /\ h'[e].pc # "tools" => (h'[e].toolCalls = <<>> /\ h'[e].call = 0)
            /\ trace'[e].gatewayCalls = trace[e].gatewayCalls]_vars

\* An assistant turn with a text, the finish reason 'stop' and a tool-call
\* request was persisted, and the loop went to the tool call.
C27_Witness ==
  \E e \in Events :
    /\ h[e].pc = "tools"
    /\ h[e].call = 1
    /\ h[e].response.finish_reason = "stop"
    /\ Last(h[e].conversation).role = "assistant"
    /\ Last(h[e].conversation).content # Null
    /\ Len(Last(h[e].conversation).tool_calls) = 1

\* How often the gateway was invoked for the tool call with this id.
Invocations(e, id) == Cardinality({x \in DOMAIN trace[e].gateway : trace[e].gateway[x].id = id})

\* C28: the tool-call requests of an assistant turn are handled one after
\* another in request order: one gateway invocation per request, the tool
\* turn of request i persisted and pushed before the gateway is invoked for
\* request i+1, and the model invoked again only after all of them.
C28_ToolCallsInSequence ==
  \A e \in Events :
    LET c == h[e].conversation
        a == LastAssistant(c)
        g == trace[e].gateway
        ap == trace[e].appended
    IN /\ h[e].pc \in {"tools", "log_tool"} =>
            LET calls == c[a].tool_calls
                i == h[e].call
                turns == Len(c) - a
                sent == IF h[e].pc = "tools" THEN i - 1 ELSE i
            IN /\ a > 0 /\ h[e].toolCalls = calls /\ i \in 1..Len(calls)
               /\ turns = i - 1
               /\ Len(g) >= sent /\ Len(ap) >= turns
               /\ \A j \in 1..Len(calls) : Invocations(e, calls[j].id) = (IF j <= sent THEN 1 ELSE 0)
               /\ \A j \in 1..sent : g[Len(g) - sent + j].id = calls[j].id
               /\ \A j \in 1..turns :
                    /\ c[a + j].role = "tool"
                    /\ c[a + j].tool_call_id = calls[j].id
                    /\ log[ap[Len(ap) - turns + j]].message = JSONstringify(c[a + j])
       /\ (h[e].pc = "model" /\ a > 0) =>
            /\ Len(c) = a + Len(c[a].tool_calls)
            /\ \A j \in DOMAIN c[a].tool_calls : Invocations(e, c[a].tool_calls[j].id) = 1

\* The second request of a batch of two is about to be sent to the gateway,
\* the tool turn of the first being the last turn of the conversation.
C28_Witness ==
  \E e \in Events :
    /\ h[e].pc = "tools"
    /\ h[e].call = 2
    /\ Len(h[e].toolCalls) = 2
    /\ Last(h[e].conversation).role = "tool"
    /\ Last(h[e].conversation).tool_call_id = h[e].toolCalls[1].id
    /\ Len(trace[e].gateway) = 1

\* The tool-call requests of the conversation whose arguments are not JSON.
BadRequests(c) ==
  {call \in UNION {Range(c[i].tool_calls) : i \in DOMAIN c} : call.arguments = "not json"}

\* C29: a tool-call request whose arguments are not valid JSON is not fatal:
\* the gateway is invoked for it with an empty argument set, one tool turn is
\* persisted for it, and the loop goes on to the next model call.
C29_BadArgumentsAreNotFatal ==
  \A e \in Events :
    LET c == h[e].conversation
        g == trace[e].gateway
    IN /\ \A x \in DOMAIN g :
            g[x].args = (IF \E call \in BadRequests(c) : call.id = g[x].id
                         THEN EmptyArgs ELSE "args")
       /\ \A call \in BadRequests(c) :
            h[e].pc \in {"model", "log_assistant", "deliver", "done"} =>
              /\ Invocations(e, call.id) = 1
              /\ Cardinality({i \in DOMAIN c : c[i].role = "tool"
                                                /\ c[i].tool_call_id = call.id}) = 1
              /\ \A i \in DOMAIN c :
                   (c[i].role = "tool" /\ c[i].tool_call_id = call.id) =>
                     \E r \in Range(trace[e].appended) :
                       log[r].role = "tool" /\ log[r].message = JSONstringify(c[i])
       /\ (h[e].pc = "failed" /\ BadRequests(c) # {}) => h[e].error \in {"log", "llm", "TypeError"}
       /\ (h[e].pc = "failed" /\ h[e].call > 0) => h[e].error = "log"

\* The model was answered again after a tool call whose arguments were not JSON.
C29_Witness ==
  \E e \in Events :
    /\ h[e].pc = "log_assistant"
    /\ trace[e].modelCalls = 2
    /\ BadRequests(h[e].conversation) # {}
    /\ Last(h[e].conversation).role = "tool"
    /\ Len(trace[e].gateway) = 1
    /\ trace[e].gateway[1].args = EmptyArgs
    /\ trace[e].gateway[1].ok

Continues(e) == h[e].branch \in {"continue", "switch"}

\* The agent of the session the request continues.
SessionAgent(e) == log[Min(Range(trace[e].rows))].agent_id

\* C23: in a continued session a system turn is appended only if the override
\* of the request differs from the agent of the session; an override naming
\* the agent the session already uses appends no system turn and looks
\* nothing up.
C23_SwitchOnlyToAnotherAgent ==
  \A e \in Events :
    (Continues(e) /\ h[e].event.override \in {NoAgent, SessionAgent(e)}) =>
      /\ \A k \in DOMAIN trace[e].appended : TurnRole(trace[e].appended[k]) # "system"
      /\ trace[e].searches = <<>>

\* Two requests of the same user that reset.
BothReset(d, e) ==
  /\ d # e
  /\ h[d].event.user_id = h[e].event.user_id
  /\ h[d].branch = h[e].branch /\ h[d].branch \in {"new", "stale"}
  /\ trace[d].appended # <<>> /\ trace[e].appended # <<>>

\* C24: nothing joins two requests of one user that both reset, by command
\* or by staleness: each writes its system turn under a session id of its
\* own, whether they run one after the other or at the same time.
C24_EachResetMakesItsOwnSession ==
  \A d, e \in Events :
    BothReset(d, e) =>
      /\ log[trace[d].appended[1]].session_id = h[d].sessionId
      /\ log[trace[e].appended[1]].session_id = h[e].sessionId
      /\ h[d].sessionId # h[e].sessionId
      /\ {h[d].sessionId, h[e].sessionId} \cap {log[i].session_id : i \in 1..Len(SeedLog)} = {}

\* Two requests of the user are under way at the same time, both found the
\* session stale, and the log holds a session of each, written within the
\* staleness window.
C24_Witness ==
  \E d, e \in Events :
    /\ BothReset(d, e)
    /\ h[d].branch = "stale"
    /\ Running(h[d]) /\ Running(h[e])
    /\ trace[d].readLen = Len(SeedLog) /\ trace[e].readLen = Len(SeedLog)
    /\ log[trace[d].appended[1]].session_id # log[trace[e].appended[1]].session_id
    /\ log[trace[d].appended[1]].user_id = log[trace[e].appended[1]].user_id
    /\ ~Stale(log[trace[d].appended[1]].timestamp, log[trace[e].appended[1]].timestamp * MsPerSecond)
    /\ ~Stale(log[trace[e].appended[1]].timestamp, log[trace[d].appended[1]].timestamp * MsPerSecond)

\* C31: at the end the outgoing set starts with the final assistant text; an
\* audio message follows only if the input included audio and the speech
\* endpoint gave audio data; a failed synthesis leaves the text alone and the
\* request goes on as it would without audio.
C31_SpeechIsBestEffort ==
  \A e \in Events :
    LET out == trace[e].outgoing
        spoken == h[e].hasAudioInput /\ trace[e].tts = "audio"
    IN /\ (h[e].pc \in {"episode", "done"}) =>
            /\ Len(out) >= 1
            /\ out[1].type = "text"
            /\ out[1].body = LastTurnOfRole(h[e].conversation, "assistant").content
            /\ out[1].body # Null
            /\ Len(out) = (IF spoken THEN 2 ELSE 1)
            /\ spoken => out[2].type = "audio"
            /\ h[e].hasAudioInput = h[e].event.audio
            /\ trace[e].deliveries = (IF h[e].event.recipients THEN 1 ELSE 0)
            /\ h[e].pc = "done" => h[e].result = (IF h[e].event.recipients THEN "void" ELSE "reply")
       /\ (h[e].pc = "failed" /\ trace[e].tts # "none") => h[e].error = "episode"
       /\ h[e].pc \notin {"episode", "done", "failed"} => out = <<>>

\* Two requests with audio input ended: one was answered with text and
\* speech, the other with text only after the synthesis failed.
C31_Witness ==
  /\ h[1].pc = "done" /\ h[2].pc = "done"
  /\ h[1].hasAudioInput /\ h[2].hasAudioInput
  /\ trace[1].tts = "audio" /\ Len(trace[1].outgoing) = 2
  /\ trace[2].tts \in {"missing", "error"} /\ Len(trace[2].outgoing) = 1
  /\ h[2].result = "reply"

\* The request changes the agent of the session it continues.
SwitchesAgent(e) ==
  /\ h[e].branch = "switch"
  /\ h[e].event.override # NoAgent
  /\ h[e].event.override # SessionAgent(e)

\* C32: a knowledge-graph search is issued only while the system turn of a
\* session reset or of an agent switch is being built, for a user-bound
\* request of a sender that is not automated; never for an automated sender,
\* an anonymous request, or a continued session whose agent does not change.
C32_SearchOnlyOnResetOrSwitch ==
  /\ [](\A e \in Events :
          trace[e].searches # <<>> =>
            /\ Len(trace[e].searches) = 1
            /\ UserBound(e)
            /\ ~h[e].event.is_bot
            /\ h[e].branch \in {"new", "stale"} \/ SwitchesAgent(e))
  /\ [][\A e \in Events :
          trace'[e].searches # trace[e].searches =>
            (trace[e].appended = <<>> /\ h'[e].pc = "log_system")]_vars

\* C33: whenever a knowledge-graph search is issued an interim notice was
\* sent before it, and that notice is sent only when the event has
\* recipients.
C33_InterimBeforeSearch ==
  \A e \in Events :
    /\ (h[e].pc = "search" \/ trace[e].searches # <<>>) => trace[e].interims >= 1
    /\ (trace[e].interims >= 1 /\ trace[e].appended = <<>>) => h[e].event.recipients

\* The bracket group that starts at position i of the text, if one does: a
\* "[", at least one character that is not "]", and the first "]" after them.
GroupEnd(t, i) ==
  IF t[i] = "[" /\ i + 2 <= Len(t) /\ t[i + 1] # "]"
     /\ \E j \in (i + 2)..Len(t) : t[j] = "]"
  THEN Min({j \in (i + 2)..Len(t) : t[j] = "]"})
  ELSE 0

\* The groups of the text from position i on, read from left to right, as
\* pairs of first and last position.
RECURSIVE GroupsFrom(_, _)
GroupsFrom(t, i) ==
  IF i > Len(t) THEN <<>>
  ELSE IF GroupEnd(t, i) # 0 THEN <<<<i, GroupEnd(t, i)>>>> \o GroupsFrom(t, GroupEnd(t, i) + 1)
  ELSE GroupsFrom(t, i + 1)

\* The text from position i on without the characters of its groups.
RECURSIVE OutsideFrom(_, _)
OutsideFrom(t, i) ==
  IF i > Len(t) THEN <<>>
  ELSE IF GroupEnd(t, i) # 0 THEN OutsideFrom(t, GroupEnd(t, i) + 1)
  ELSE <<t[i]>> \o OutsideFrom(t, i + 1)

WithoutGroups(t) == OutsideFrom(t, 1)

\* A part of a group is a directive: the key s with the value new or n, or
\* the key a with a value, in any letter case and with blanks around them.
IsDirective(part) ==
  LET kv == split(part, ":")
      k == toLowerCase(trim(kv[1]))
      v == IF Len(kv) >= 2 THEN toLowerCase(trim(kv[2])) ELSE <<>>
  IN \/ k = <<"s">> /\ v \in {<<"n", "e", "w">>, <<"n">>}
     \/ k = <<"a">> /\ v # <<>>

\* The text holds a group with a directive.
HasDirective(t) ==
  \E k \in DOMAIN GroupsFrom(t, 1) :
    LET g == GroupsFrom(t, 1)[k]
    IN \E part \in Range(split(SubSeq(t, g[1] + 1, g[2] - 1), ";")) : IsDirective(part)

\* C34: parseMessage takes every bracket group out of the text, directive or
\* not, and returns what is left trimmed; a text whose groups hold no
\* directive gives neither a session command nor an agent override (and no
\* error).
C34_EveryGroupIsStripped ==
  pm.stage \in {"parsed", "again"} =>
    /\ pm.out.cleanText = trim(WithoutGroups(trim(pm.raw)))
    /\ ~HasDirective(trim(pm.raw)) =>
         (pm.out.sessionCommand = "undefined" /\ pm.out.agent_idOverride = Undefined)

\* A text with a group whose key is unknown, between two letters, was parsed.
C34_Witness ==
  /\ pm.stage = "parsed"
  /\ pm.raw = <<"x", "[", "x", ":", "n", "]", "x">>
  /\ pm.out = ParseResult(<<"x", "x">>, "undefined", Undefined)

\* Number of turns at the head of the request's conversation that were read
\* from the log.
ReadTurns(e) == IF Replayed(e) THEN Len(trace[e].rows) ELSE 0

\* C35: events handled at the same time do not interfere through state of
\* the process: every turn an event appends is tagged with the session id
\* that event resolved, and the conversation it sends to the model holds only
\* turns read from the log for its own session, then turns it made itself.
C35_EventsDoNotInterfere ==
  \A e \in Events :
    LET a == trace[e].appended
        p == trace[e].payload
        n == ReadTurns(e)
    IN /\ \A k \in DOMAIN a :
            /\ log[a[k]].session_id = h[e].sessionId
            /\ log[a[k]].agent_id = h[e].agent_id
            /\ \A d \in Events \ {e} : a[k] \notin Range(trace[d].appended)
       /\ trace[e].modelCalls >= 1 =>
            /\ Len(p) - 1 >= n /\ Len(p) - 1 - n <= Len(a)
            /\ \A j \in 1..n :
                 /\ trace[e].rows[j] <= trace[e].readLen
                 /\ log[trace[e].rows[j]].session_id = h[e].sessionId
                 /\ p[j] = JSONparse(log[trace[e].rows[j]].message)
            /\ \A j \in (n + 1)..(Len(p) - 1) : p[j] = JSONparse(log[a[j - n]].message)

\* Two requests continue the session at the same time; one of them read a
\* turn the other had appended, and both have invoked the model.
C35_Witness ==
  \E d, e \in Events :
    /\ d # e
    /\ Running(h[d]) /\ Running(h[e])
    /\ h[d].branch = "continue" /\ h[e].branch = "continue"
    /\ Range(trace[e].rows) \cap Range(trace[d].appended) # {}
    /\ trace[d].modelCalls >= 1 /\ trace[e].modelCalls >= 1

\* C36: every row of the log carries the role of the turn it holds: system
\* for a system turn, user for a user turn, assistant for an assistant turn,
\* tool for a tool turn.
C36_RoleTagIsTurnRole ==
  \A i \in DOMAIN log : log[i].role = TurnRole(i)

\* C37: the tool gateway is invoked only for tools of the list offered to
\* the model for this request, the tools of the catalog that the agent is
\* allowed.
C37_OnlyOfferedToolsAreCalled ==
  \A e \in Events :
    \A x \in DOMAIN trace[e].gateway : trace[e].gateway[x].name \in h[e].llmTools

\* The request has accepted a response of the model service and has not
\* yet persisted its assistant turn.
Unpersisted(e) ==
  /\ trace[e].modelCalls >= 1
  /\ Accepted(trace[e].reply)
  /\ \A r \in Range(trace[e].appended) :
       log[r].message # JSONstringify(sanitizeResponseMessage(trace[e].reply.choices[1].message))

\* C40: every response getLLMResponse accepts has its assistant turn
\* appended to the log before any tool call, delivery or further model call,
\* and between the two handleEvent fails only if the append itself fails,
\* whatever optional field the response lacks.
C40_AcceptedResponseIsPersisted ==
  \A e \in Events :
    Unpersisted(e) =>
      /\ h[e].pc \in {"log_assistant", "failed"}
      /\ h[e].pc = "failed" => h[e].error = "log"

\* The model of the agent whose prompt the system turn holds.
ModelOfTurn(m) == IF m.content[2] = 1 THEN "m1" ELSE "m2"

\* C38: in a continued session the model of the request's model calls is
\* that of the agent of the newest system turn of the conversation: a switch
\* made by an earlier request holds for later requests without a directive.
C38_SwitchStaysInEffect ==
  \A e \in Events :
    (Continues(e) /\ trace[e].modelCalls >= 1) =>
      trace[e].sentModel = ModelOfTurn(LastTurnOfRole(h[e].conversation, "system"))

\* The turns the request appended to the log, in the order it appended them.
OwnTurns(e) == [k \in DOMAIN trace[e].appended |-> JSONparse(log[trace[e].appended[k]].message)]

\* Index of the last assistant turn before position k (0 if none).
AssistantBefore(t, k) ==
  IF \E i \in 1..(k - 1) : t[i].role = "assistant"
  THEN Max({i \in 1..(k - 1) : t[i].role = "assistant"})
  ELSE 0

\* C39: the turns one event appends form, in this order: at most one system
\* turn, one user turn, then assistant turns, each one with k tool-call
\* requests followed at once by k tool turns with the ids of the requests in
\* request order; the last turn of a completed event is an assistant turn
\* without tool calls.
C39_ShapeOfAppendedTurns ==
  \A e \in Events :
    LET t == OwnTurns(e)
        s == IF t # <<>> /\ t[1].role = "system" THEN 1 ELSE 0
    IN /\ \A k \in DOMAIN t :
            /\ t[k].role = "system" <=> (k = 1 /\ s = 1)
            /\ t[k].role = "user" <=> k = s + 1
            /\ k > s + 1 => t[k].role \in {"assistant", "tool"}
            /\ k = s + 2 => t[k].role = "assistant"
            /\ (k > s + 1 /\ t[k].role = "tool") =>
                 LET a == AssistantBefore(t, k)
                 IN /\ a > 0 /\ k - a <= Len(t[a].tool_calls)
                    /\ t[k].tool_call_id = t[a].tool_calls[k - a].id
            /\ (k > s + 2 /\ t[k].role = "assistant") =>
                 LET a == AssistantBefore(t, k)
                 IN a > 0 /\ k - a - 1 = Len(t[a].tool_calls)
       /\ h[e].pc \in {"list_tools", "model", "log_assistant", "tools", "log_tool",
                         "deliver", "episode", "done"} => Len(t) >= s + 1
       /\ h[e].pc \in {"deliver", "episode", "done"} =>
            /\ Len(t) >= s + 2
            /\ Last(t).role = "assistant"
            /\ Last(t).tool_calls = <<>>

\* A request completed after a batch of two tool calls and a single one.
C39_Witness ==
  \E e \in Events :
    /\ h[e].pc = "done"
    /\ Len(OwnTurns(e)) = 8
    /\ Len(OwnTurns(e)[3].tool_calls) = 2
    /\ OwnTurns(e)[5].role = "tool"
    /\ Len(OwnTurns(e)[6].tool_calls) = 1
    /\ OwnTurns(e)[7].role = "tool"

====
